---- MODULE Spec2Model ----
(***************************************************************************)
(* Constraint propagation over a layered MDD (crate aicad).                *)
(*                                                                         *)
(* Handles (NodeIndex, EdgeIndex, LayerIndex, VariableIndex,               *)
(* ConstraintIndex) are the 0-based numbers of the source; a Vec is a      *)
(* sequence, so the element with handle h of a Vec v is v[h + 1].          *)
(* A Rust panic (index out of bounds, unwrap on None) is recorded in the   *)
(* field "panicked" of the value being computed; once it is set the        *)
(* remaining code of the call is skipped, as unwinding does.               *)
(***************************************************************************)
EXTENDS Integers, Sequences, FiniteSets, TLC

\* ------------------------------------------------------------------ bounds
\* Number of variables of the problems explored (layers = NumVars + 1).
NumVars == 3
\* Domain values are drawn from 0 .. MaxVal.
MaxVal == 2
\* Number of calls of propagate_constraints the user makes in a run.
MaxPropagates == 2
\* Number of calls of refine the user makes in a run.
MaxRefines == 1
\* Largest max_width handed to refine.
MaxWidth == 3

\* ------------------------------------------------------- program constants
\* Width of a bitset word (u64).
WordBits == 64

\* ---------------------------------------------------------------- helpers
Range(s) == {s[i] : i \in 1..Len(s)}

Max2(a, b) == IF a >= b THEN a ELSE b

\* Vec::swap_remove(index): the last element takes the place of the removed
\* one. `index` is 0-based and in range (callers check).
SwapRemove(s, index) ==
    LET n == Len(s) IN
    IF index + 1 = n THEN SubSeq(s, 1, n - 1)
    ELSE SubSeq([s EXCEPT ![index + 1] = s[n]], 1, n - 1)

\* Position (0-based) of the last occurrence of x in s, or -1.
LastIndexOf(s, x) ==
    LET hits == {i \in 1..Len(s) : s[i] = x} IN
    IF hits = {} THEN -1 ELSE (CHOOSE i \in hits : \A j \in hits : j <= i) - 1

\* ------------------------------------------------------------------ Bitset
(* A SparseBitset<isize> built over the key set U is a dense Bitset whose  *)
(* bit k belongs to the k-th key.  A bitset value is modelled as the set   *)
(* of keys whose bit is set, plus the token Spare when the bits of the     *)
(* words that belong to no key are set (reset(!0) sets them all, and no    *)
(* other operation touches them one by one).  Spare is a number that is   *)
(* no domain value (domain values are naturals in the problems explored).  *)
Spare == -1

\* Bitset::new(n): number of 64-bit words
Bitset_number_words(n) == Max2(n \div WordBits, 1)

\* Number of bits of the words that are mapped to no key
SpareBits(U) == Bitset_number_words(Cardinality(U)) * WordBits - Cardinality(U)

\* Bitset::reset(0) and Bitset::reset(!0)
Bitset_reset_zero == {}
Bitset_reset_ones(U) == IF SpareBits(U) > 0 THEN U \cup {Spare} ELSE U

\* SparseBitset::size: popcount over all the words of the dense bitset
SparseBitset_size(b, U) ==
    Cardinality(b \ {Spare}) + (IF Spare \in b THEN SpareBits(U) ELSE 0)

\* SparseBitset::size_union: popcount of the word-wise OR (both operands are
\* keyed by the same U, so they have the same number of words)
SparseBitset_size_union(a, b, U) == SparseBitset_size(a \cup b, U)

\* SparseBitset::contains/insert/remove look the key up with unwrap()
SparseBitset_known(U, element) == element \in U

\* ---------------------------------------------------------------- loops
(* The loops of the source thread a value through their iterations.  Each  *)
(* iteration is evaluated before the next one starts (the test             *)
(* `next = next` makes the evaluation happen there, and is always true).   *)

\* for i in lo..hi (hi exclusive), ascending: acc := Op(acc, i)
RECURSIVE ForUp(_, _, _, _)
ForUp(Op(_, _), acc, lo, hi) ==
    IF lo >= hi THEN acc
    ELSE LET next == Op(acc, lo)
         IN IF next = next THEN ForUp(Op, next, lo + 1, hi) ELSE next

\* for i in (lo..hi).rev(): acc := Op(acc, i)
RECURSIVE ForDown(_, _, _, _)
ForDown(Op(_, _), acc, lo, hi) ==
    IF lo >= hi THEN acc
    ELSE LET next == Op(acc, hi - 1)
         IN IF next = next THEN ForDown(Op, next, lo, hi - 1) ELSE next

\* for x in s (a Vec iterated front to back): acc := Op(acc, x)
RECURSIVE ForEach(_, _, _)
ForEach(Op(_, _), acc, s) ==
    IF s = <<>> THEN acc
    ELSE LET next == Op(acc, Head(s))
         IN IF next = next THEN ForEach(Op, next, Tail(s)) ELSE next

\* ---------------------------------------------------------- dense Bitset
(* The dense Bitset itself: `words` is the Vec<u64>, a word being the set  *)
(* of the shifts (0 .. WordBits - 1) of its bits that are set.  `panicked` *)
(* records an index out of bounds on `words`.                              *)

\* Bitset::new(n)
Bitset_new(n) ==
    [words |-> [w \in 1..Bitset_number_words(n) |-> {}], panicked |-> FALSE]

\* Bitset::contains(element): [value, panicked]
Bitset_contains(b, element) ==
    LET word == element \div WordBits
        shift == element % WordBits
    IN IF word + 1 > Len(b.words) THEN [value |-> FALSE, panicked |-> TRUE]
       ELSE [value |-> shift \in b.words[word + 1], panicked |-> FALSE]

\* Bitset::insert(element)
Bitset_insert(b, element) ==
    LET word == element \div WordBits
        shift == element % WordBits
    IN IF word + 1 > Len(b.words) THEN [b EXCEPT !.panicked = TRUE]
       ELSE [b EXCEPT !.words[word + 1] = @ \cup {shift}]

\* Bitset::remove(element)
Bitset_remove(b, element) ==
    LET word == element \div WordBits
        shift == element % WordBits
    IN IF word + 1 > Len(b.words) THEN [b EXCEPT !.panicked = TRUE]
       ELSE [b EXCEPT !.words[word + 1] = @ \ {shift}]

\* Bitset::reset(value): every word becomes the pattern (a set of shifts)
Bitset_reset(b, value) == [b EXCEPT !.words = [w \in DOMAIN @ |-> value]]

\* Bitset::size: sum of count_ones over the words
Bitset_size(b) ==
    ForUp(LAMBDA sum, i : sum + Cardinality(b.words[i + 1]), 0, 0, Len(b.words))

\* Bitset::size_union(self, other): for every word i of self,
\* (word | other.words[i]).count_ones(), summed: [value, panicked]
Bitset_size_union(self, other) ==
    ForUp(LAMBDA r, i :
              IF r.panicked THEN r
              ELSE IF i + 1 > Len(other.words) THEN [r EXCEPT !.panicked = TRUE]
              ELSE [r EXCEPT !.value =
                        @ + Cardinality(self.words[i + 1] \cup other.words[i + 1])],
          [value |-> 0, panicked |-> FALSE], 0, Len(self.words))

\* -------------------------------------------------------- modelling layer
Variable_new(domain) == [domain |-> domain, constraints |-> <<>>]

Problem_default ==
    [variables |-> <<>>, constraints |-> <<>>, variable_ordering |-> <<>>]

Problem_number_variables(problem) == Len(problem.variables)

Problem_number_constraints(problem) == Len(problem.constraints)

Problem_add_variable(problem, domain) ==
    [problem EXCEPT !.variables = Append(@, Variable_new(domain))]

\* Problem::add_constraint pushes the boxed constraint, nothing else
Problem_add_constraint(problem, constraint) ==
    [problem EXCEPT !.constraints = Append(@, constraint)]

\* Variable::add_constraint
Variable_add_constraint(problem, variable, constraint_index) ==
    [problem EXCEPT !.variables[variable + 1].constraints =
                        Append(@, constraint_index)]

\* equal(problem, variable, value): Variable::set_domain(vec![value])
equal(problem, variable, value) ==
    [problem EXCEPT !.variables[variable + 1].domain = <<value>>]

\* Union of the domains of the variables of a scope, as they are now
DomainUnion(problem, scope) ==
    UNION {Range(problem.variables[scope[i] + 1].domain) : i \in 1..Len(scope)}

\* --------------------------------------------------- AllDifferent (state)
\* AllDifferentProperty::new: two empty sparse bitsets
AllDifferentProperty_new == [value_all_path |-> {}, value_some_path |-> {}]

\* AllDifferent::new
AllDifferent_new(problem, scope) ==
    [kind |-> "AllDifferent",
     variables |-> scope,
     domain |-> DomainUnion(problem, scope),
     top_down_properties |->
        [l \in 1..(Problem_number_variables(problem) + 1) |-> <<AllDifferentProperty_new>>],
     bottom_up_properties |->
        [l \in 1..(Problem_number_variables(problem) + 1) |-> <<AllDifferentProperty_new>>],
     map_hall_set |-> <<>>,
     layer_in_scope |-> {},
     layer_words |-> Max2(Problem_number_variables(problem) \div WordBits, 1),
     layer_x |-> 0,
     layer_y |-> 0,
     panicked |-> FALSE]

\* NotEquals::new
NotEquals_new(problem, x, y) ==
    [kind |-> "NotEquals",
     variables |-> <<x, y>>,
     domain |-> DomainUnion(problem, <<x, y>>),
     top_down_properties |->
        [l \in 1..(Problem_number_variables(problem) + 1) |-> <<{}>>],
     bottom_up_properties |->
        [l \in 1..(Problem_number_variables(problem) + 1) |-> <<{}>>],
     map_hall_set |-> <<>>,
     layer_in_scope |-> {},
     layer_words |-> 0,
     layer_x |-> 0,
     layer_y |-> 0,
     panicked |-> FALSE]

\* all_different(problem, variables): registers the index of the constraint
\* in every scope variable, then adds the constraint
all_different(problem, scope) ==
    LET constraint_index == Problem_number_constraints(problem)
        registered == ForEach(LAMBDA p, v : Variable_add_constraint(p, v, constraint_index),
                              problem, scope)
    IN Problem_add_constraint(registered, AllDifferent_new(registered, scope))

\* not_equals(problem, x, y): the factory the tests call
not_equals(problem, x, y) ==
    LET constraint_index == Problem_number_constraints(problem)
        registered == ForEach(LAMBDA p, v : Variable_add_constraint(p, v, constraint_index),
                              problem, <<x, y>>)
    IN Problem_add_constraint(registered, NotEquals_new(registered, x, y))

\* Key of the sort of (layer, variable) pairs in update_variable_ordering
PairLess(l1, v1, l2, v2) == l1 < l2 \/ (l1 = l2 /\ v1 < v2)

\* Mutant of AllDifferent_update_variable_ordering: the scope is not sorted
\* by layer, a variable gets its position in the scope as it was declared
AllDifferent_update_variable_ordering_unsorted(c, ordering) ==
    LET scope == Range(c.variables)
        bad == \E v \in scope :
                  \/ v + 1 > Len(ordering)
                  \/ ordering[v + 1] \div WordBits >= c.layer_words
        n == Len(c.variables)
        pos(v) == Cardinality({u \in scope : u < v})
    IN IF bad THEN [c EXCEPT !.panicked = TRUE]
       ELSE [c EXCEPT
               !.layer_in_scope = @ \cup {ordering[v + 1] : v \in scope},
               !.map_hall_set =
                   [v \in (DOMAIN @) \cup scope |->
                       IF v \in scope THEN <<pos(v), n - 1 - pos(v)>> ELSE @[v]]]

\* AllDifferent::update_variable_ordering
AllDifferent_update_variable_ordering(c, ordering) ==
    LET scope == Range(c.variables)
        bad == \E v \in scope :
                  \/ v + 1 > Len(ordering)
                  \/ ordering[v + 1] \div WordBits >= c.layer_words
        n == Len(c.variables)
        pos(v) == Cardinality({u \in scope :
                      PairLess(ordering[u + 1], u, ordering[v + 1], v)})
    IN IF bad THEN [c EXCEPT !.panicked = TRUE]
       ELSE [c EXCEPT
               !.layer_in_scope = @ \cup {ordering[v + 1] : v \in scope},
               !.map_hall_set =
                   [v \in (DOMAIN @) \cup scope |->
                       IF v \in scope THEN <<pos(v), n - 1 - pos(v)>> ELSE @[v]]]

\* NotEquals::update_variable_ordering
NotEquals_update_variable_ordering(c, ordering) ==
    IF \E v \in Range(c.variables) : v + 1 > Len(ordering)
    THEN [c EXCEPT !.panicked = TRUE]
    ELSE [c EXCEPT !.layer_x = ordering[c.variables[1] + 1],
                   !.layer_y = ordering[c.variables[2] + 1]]

update_variable_ordering(c, ordering) ==
    IF c.kind = "AllDifferent" THEN AllDifferent_update_variable_ordering(c, ordering)
    ELSE NotEquals_update_variable_ordering(c, ordering)

\* Problem::set_variable_ordering
Problem_set_variable_ordering(problem, ordering) ==
    [problem EXCEPT
        !.constraints = [i \in 1..Len(@) |-> update_variable_ordering(@[i], ordering)],
        !.variable_ordering = ordering]

\* Constraint::is_layer_in_scope
is_layer_in_scope(c, layer) ==
    IF c.kind = "AllDifferent" THEN layer \in c.layer_in_scope
    ELSE layer = c.layer_x \/ layer = c.layer_y

\* Constraint::add_node_in_layer: one more property at the end of the layer
add_node_in_layer(c, layer) ==
    LET fresh == IF c.kind = "AllDifferent" THEN AllDifferentProperty_new ELSE {}
    IN [c EXCEPT !.top_down_properties[layer + 1] = Append(@, fresh),
                 !.bottom_up_properties[layer + 1] = Append(@, fresh)]


\* --------------------------------------------------------------- MDD graph
(* The operations that touch the MDD and the constraints of the problem    *)
(* work on a record w = [problem, mdd]; those that touch the graph alone   *)
(* work on the Mdd record m.                                               *)

Node_new(layer, index_in_layer) ==
    [layer |-> layer, index_in_layer |-> index_in_layer,
     parents_edges |-> <<>>, children_edges |-> <<>>, active |-> TRUE]

Edge_new(layer_from, from, to, assignment) ==
    [layer_from |-> layer_from, from |-> from, to |-> to,
     assignment |-> assignment, active |-> TRUE]

\* Layer::default(): no node, decision VariableIndex(0)
Layer_default == [nodes |-> <<>>, decision |-> 0]

number_children(m, node) == Len(m.nodes[node + 1].children_edges)

number_parents(m, node) == Len(m.nodes[node + 1].parents_edges)

number_layers(m) == Len(m.layers)

Layer_number_nodes(m, layer) == Len(m.layers[layer + 1].nodes)

node_at(m, layer, index) == m.layers[layer + 1].nodes[index + 1]

Panic(m) == [m EXCEPT !.panicked = TRUE]

\* Mdd::add_node
add_node(w, layer) ==
    LET m == w.mdd
        index_in_layer == Layer_number_nodes(m, layer)
        node == Node_new(layer, index_in_layer)
        index == Len(m.nodes)
    IN [mdd |-> [m EXCEPT !.layers[layer + 1].nodes = Append(@, index),
                          !.nodes = Append(@, node)],
        problem |-> [w.problem EXCEPT
                        !.constraints = [c \in 1..Len(@) |-> add_node_in_layer(@[c], layer)]]]

\* Mdd::add_edge
add_edge(m, from, to, assignment) ==
    LET edge_index == Len(m.edges)
        layer_from == m.nodes[from + 1].layer
    IN [m EXCEPT !.nodes = [@ EXCEPT ![from + 1].children_edges = Append(@, edge_index)],
                 !.nodes = [@ EXCEPT ![to + 1].parents_edges = Append(@, edge_index)],
                 !.edges = Append(@, Edge_new(layer_from, from, to, assignment))]

\* Mutant of set_decision: the ordering is ignored, variable i decides layer i
set_decision_ignoring_ordering(m, problem, variable_id) ==
    IF m.panicked THEN m
    ELSE [m EXCEPT !.layers[variable_id + 1].decision = variable_id]

\* Mdd::new, lines 47-49: the layer the ordering gives to the variable gets
\* the variable as its decision
set_decision(m, problem, variable_id) ==
    LET layer == problem.variable_ordering[variable_id + 1] IN
    IF m.panicked THEN m
    ELSE IF layer + 1 > Len(m.layers) THEN Panic(m)
    ELSE [m EXCEPT !.layers[layer + 1].decision = variable_id]

\* Mdd::new, lines 53-65: one edge per value of the decision of the layer
edges_of_layer(m, problem, layer_from) ==
    LET edge_source == node_at(m, layer_from, 0)
        edge_target == node_at(m, layer_from + 1, 0)
        variable == m.layers[layer_from + 1].decision
        domain == problem.variables[variable + 1].domain
    IN IF m.panicked THEN m
       ELSE IF variable + 1 > Len(problem.variables) THEN Panic(m)
       ELSE ForUp(LAMBDA mm, value : add_edge(mm, edge_source, edge_target,
                                              domain[value + 1]),
                  m, 0, Len(domain))

\* Mdd::new
Mdd_new(problem) ==
    LET n == Problem_number_variables(problem)
        empty == [nodes |-> <<>>, edges |-> <<>>,
                  layers |-> [l \in 1..(n + 1) |-> Layer_default],
                  propagation_queue |-> <<>>,
                  scheduled_constraint |-> {},
                  scheduled_words |-> Bitset_number_words(Problem_number_constraints(problem)),
                  cache |-> <<>>,
                  panicked |-> FALSE]
        with_nodes == ForUp(add_node, [mdd |-> empty, problem |-> problem], 0, n + 1)
        with_decisions == ForUp(LAMBDA m, v : set_decision(m, problem, v),
                                with_nodes.mdd, 0, Len(problem.variable_ordering))
        with_edges == ForUp(LAMBDA m, l : edges_of_layer(m, problem, l),
                            with_decisions, 0, n)
    IN [mdd |-> with_edges, problem |-> with_nodes.problem]

\* ---------------------------------------------------------- edge removal
\* Node::remove_parent_edge / Node::remove_child_edge: swap-remove the last
\* occurrence of the edge, if any
Node_remove_edge(list, edge) ==
    LET i == LastIndexOf(list, edge) IN
    IF i < 0 THEN list ELSE SwapRemove(list, i)

RECURSIVE remove_child_of(_, _, _)
RECURSIVE remove_parent_of(_, _, _)
RECURSIVE remove_node(_, _)

\* Mutant of remove_child_of: the active flag of the edge is flipped instead
\* of cleared
remove_child_of_flipping(m, node, index) ==
    IF m.panicked THEN m
    ELSE IF index >= number_children(m, node) THEN Panic(m)
    ELSE
      LET edge == m.nodes[node + 1].children_edges[index + 1]
          to == m.edges[edge + 1].to
          m1 == [m EXCEPT !.nodes = [@ EXCEPT ![node + 1].children_edges =
                                                    SwapRemove(@, index)],
                          !.nodes = [@ EXCEPT ![to + 1].parents_edges =
                                                    Node_remove_edge(@, edge)],
                          !.edges[edge + 1].active = ~@]
          m2 == IF number_children(m1, node) = 0 THEN remove_node(m1, node) ELSE m1
      IN IF m2.panicked THEN m2
         ELSE IF number_parents(m2, to) = 0 THEN remove_node(m2, to) ELSE m2

\* Mutant of remove_child_of: the edge is removed and the nodes it leaves
\* without children or without parents are kept
remove_child_of_without_cascade(m, node, index) ==
    IF m.panicked THEN m
    ELSE IF index >= number_children(m, node) THEN Panic(m)
    ELSE
      LET edge == m.nodes[node + 1].children_edges[index + 1]
          to == m.edges[edge + 1].to
      IN [m EXCEPT !.nodes = [@ EXCEPT ![node + 1].children_edges =
                                            SwapRemove(@, index)],
                   !.nodes = [@ EXCEPT ![to + 1].parents_edges =
                                            Node_remove_edge(@, edge)],
                   !.edges[edge + 1].active = FALSE]

\* Mdd::remove_child_of(node, index)
remove_child_of(m, node, index) ==
    IF m.panicked THEN m
    ELSE IF index >= number_children(m, node) THEN Panic(m)
    ELSE
      LET edge == m.nodes[node + 1].children_edges[index + 1]
          to == m.edges[edge + 1].to
          m1 == [m EXCEPT !.nodes = [@ EXCEPT ![node + 1].children_edges =
                                                    SwapRemove(@, index)],
                          !.nodes = [@ EXCEPT ![to + 1].parents_edges =
                                                    Node_remove_edge(@, edge)],
                          !.edges[edge + 1].active = FALSE]
          m2 == IF number_children(m1, node) = 0 THEN remove_node(m1, node) ELSE m1
      IN IF m2.panicked THEN m2
         ELSE IF number_parents(m2, to) = 0 THEN remove_node(m2, to) ELSE m2

\* Mdd::remove_parent_of(node, index)
remove_parent_of(m, node, index) ==
    IF m.panicked THEN m
    ELSE IF index >= number_parents(m, node) THEN Panic(m)
    ELSE
      LET edge == m.nodes[node + 1].parents_edges[index + 1]
          from == m.edges[edge + 1].from
          m1 == [m EXCEPT !.nodes = [@ EXCEPT ![node + 1].parents_edges =
                                                    SwapRemove(@, index)],
                          !.nodes = [@ EXCEPT ![from + 1].children_edges =
                                                    Node_remove_edge(@, edge)],
                          !.edges[edge + 1].active = FALSE]
          m2 == IF number_parents(m1, node) = 0 THEN remove_node(m1, node) ELSE m1
      IN IF m2.panicked THEN m2
         ELSE IF number_children(m2, from) = 0 THEN remove_node(m2, from) ELSE m2

\* Mdd::remove_node(node): both loops run over the length read before the loop
remove_node(m, node) ==
    LET m0 == [m EXCEPT !.nodes[node + 1].active = FALSE]
        m1 == ForUp(LAMBDA mm, i : remove_child_of(mm, node, i),
                    m0, 0, number_children(m0, node))
    IN IF m1.panicked THEN m1
       ELSE ForUp(LAMBDA mm, i : remove_parent_of(mm, node, i),
                  m1, 0, number_parents(m1, node))


\* ------------------------------------------- AllDifferent (propagator)
\* Mutant of AllDifferent_top_down_edge: the value integrated into the A set
\* of the parent is left there
AllDifferent_top_down_edge_without_restore(c, m, target_layer, i, j) ==
    IF c.panicked THEN c
    ELSE
      LET target_node == node_at(m, target_layer, i)
          edge == m.nodes[target_node + 1].parents_edges[j + 1]
          assignment == m.edges[edge + 1].assignment
          source_node == m.edges[edge + 1].from
          source_layer == m.nodes[source_node + 1].layer
          source_index == m.nodes[source_node + 1].index_in_layer
          layer_in_scope == is_layer_in_scope(c, source_layer)
      IN IF ~(source_layer < target_layer) \/ ~SparseBitset_known(c.domain, assignment)
         THEN [c EXCEPT !.panicked = TRUE]
         ELSE
           LET c1 == IF layer_in_scope
                     THEN [c EXCEPT
                       !.top_down_properties[target_layer + 1][i + 1].value_some_path =
                            @ \cup {assignment},
                       !.top_down_properties[source_layer + 1][source_index + 1].value_all_path =
                            @ \cup {assignment}]
                     ELSE c
               source == c1.top_down_properties[source_layer + 1][source_index + 1]
           IN [c1 EXCEPT
                 !.top_down_properties[target_layer + 1][i + 1].value_all_path =
                      @ \cap source.value_all_path,
                 !.top_down_properties[target_layer + 1][i + 1].value_some_path =
                      @ \cup source.value_some_path]

\* One iteration of the loop over the parents of the target node
\* (update_property_top_down, body of `for j`)
AllDifferent_top_down_edge(c, m, target_layer, i, j) ==
    IF c.panicked THEN c
    ELSE
      LET target_node == node_at(m, target_layer, i)
          edge == m.nodes[target_node + 1].parents_edges[j + 1]
          assignment == m.edges[edge + 1].assignment
          source_node == m.edges[edge + 1].from
          source_layer == m.nodes[source_node + 1].layer
          source_index == m.nodes[source_node + 1].index_in_layer
          layer_in_scope == is_layer_in_scope(c, source_layer)
      IN IF ~(source_layer < target_layer) \/ ~SparseBitset_known(c.domain, assignment)
         THEN [c EXCEPT !.panicked = TRUE]
         ELSE
           LET is_in_set == assignment \in
                   c.top_down_properties[source_layer + 1][source_index + 1].value_all_path
               c1 == IF layer_in_scope
                     THEN [c EXCEPT
                       !.top_down_properties[target_layer + 1][i + 1].value_some_path =
                            @ \cup {assignment},
                       !.top_down_properties[source_layer + 1][source_index + 1].value_all_path =
                            @ \cup {assignment}]
                     ELSE c
               source == c1.top_down_properties[source_layer + 1][source_index + 1]
               c2 == [c1 EXCEPT
                       !.top_down_properties[target_layer + 1][i + 1].value_all_path =
                            @ \cap source.value_all_path,
                       !.top_down_properties[target_layer + 1][i + 1].value_some_path =
                            @ \cup source.value_some_path]
           IN IF layer_in_scope /\ ~is_in_set
              THEN [c2 EXCEPT
                      !.top_down_properties[source_layer + 1][source_index + 1].value_all_path =
                            @ \ {assignment}]
              ELSE c2

\* Mutant of AllDifferent_top_down_node: the properties are reset and the
\* parent edges are not folded in
AllDifferent_top_down_node_without_fold(c, m, target_layer, i) ==
    IF c.panicked THEN c
    ELSE [c EXCEPT
            !.top_down_properties[target_layer + 1][i + 1] =
                [value_some_path |-> Bitset_reset_zero,
                 value_all_path |-> Bitset_reset_ones(c.domain)]]

\* Body of `for i`: reset the properties of the node, then fold its parents
AllDifferent_top_down_node(c, m, target_layer, i) ==
    IF c.panicked THEN c
    ELSE
      LET c0 == [c EXCEPT
                   !.top_down_properties[target_layer + 1][i + 1] =
                       [value_some_path |-> Bitset_reset_zero,
                        value_all_path |-> Bitset_reset_ones(c.domain)]]
          target_node == node_at(m, target_layer, i)
      IN ForUp(LAMBDA cc, j : AllDifferent_top_down_edge(cc, m, target_layer, i, j),
               c0, 0, number_parents(m, target_node))

\* AllDifferent::update_property_top_down
AllDifferent_update_property_top_down(c, m) ==
    ForUp(LAMBDA c1, target_layer :
              ForUp(LAMBDA c2, i : AllDifferent_top_down_node(c2, m, target_layer, i),
                    c1, 0, Layer_number_nodes(m, target_layer)),
          c, 1, number_layers(m))


\* Mutant of AllDifferent_bottom_up_node: the properties are cleared and the
\* child edges are not folded in
AllDifferent_bottom_up_node_cleared(c, m, source_layer, i) ==
    IF c.panicked THEN c
    ELSE [c EXCEPT
            !.bottom_up_properties[source_layer + 1][i + 1] =
                [value_some_path |-> Bitset_reset_zero,
                 value_all_path |-> Bitset_reset_zero]]

\* One iteration of the loop over the children of the source node
\* (update_property_bottom_up, body of `for j`)
AllDifferent_bottom_up_edge(c, m, source_layer, i, j) ==
    IF c.panicked THEN c
    ELSE
      LET layer_in_scope == is_layer_in_scope(c, source_layer)
          source_node == node_at(m, source_layer, i)
          edge == m.nodes[source_node + 1].children_edges[j + 1]
          assignment == m.edges[edge + 1].assignment
          target_node == m.edges[edge + 1].to
          target_layer == m.nodes[target_node + 1].layer
          target_index == m.nodes[target_node + 1].index_in_layer
      IN IF ~(source_layer < target_layer) \/ ~SparseBitset_known(c.domain, assignment)
         THEN [c EXCEPT !.panicked = TRUE]
         ELSE
           LET is_in_set == assignment \in
                   c.bottom_up_properties[target_layer + 1][target_index + 1].value_all_path
               c1 == IF layer_in_scope
                     THEN [c EXCEPT
                       !.bottom_up_properties[source_layer + 1][i + 1].value_some_path =
                            @ \cup {assignment},
                       !.bottom_up_properties[target_layer + 1][target_index + 1].value_all_path =
                            @ \cup {assignment}]
                     ELSE c
               target == c1.bottom_up_properties[target_layer + 1][target_index + 1]
               c2 == [c1 EXCEPT
                       !.bottom_up_properties[source_layer + 1][i + 1].value_all_path =
                            @ \cap target.value_all_path,
                       !.bottom_up_properties[source_layer + 1][i + 1].value_some_path =
                            @ \cup target.value_some_path]
           IN IF layer_in_scope /\ ~is_in_set
              THEN [c2 EXCEPT
                      !.bottom_up_properties[target_layer + 1][target_index + 1].value_all_path =
                            @ \ {assignment}]
              ELSE c2

\* Body of `for i`: reset the properties of the node, then fold its children
AllDifferent_bottom_up_node(c, m, source_layer, i) ==
    IF c.panicked THEN c
    ELSE
      LET c0 == [c EXCEPT
                   !.bottom_up_properties[source_layer + 1][i + 1] =
                       [value_some_path |-> Bitset_reset_zero,
                        value_all_path |-> Bitset_reset_ones(c.domain)]]
          source_node == node_at(m, source_layer, i)
      IN ForUp(LAMBDA cc, j : AllDifferent_bottom_up_edge(cc, m, source_layer, i, j),
               c0, 0, number_children(m, source_node))

\* AllDifferent::update_property_bottom_up: layers n-1 down to 0
AllDifferent_update_property_bottom_up(c, m) ==
    ForDown(LAMBDA c1, source_layer :
                ForUp(LAMBDA c2, i : AllDifferent_bottom_up_node(c2, m, source_layer, i),
                      c1, 0, Layer_number_nodes(m, source_layer)),
            c, 0, number_layers(m) - 1)

\* Mutant of AllDifferent_is_assignment_invalid: the first Hall test without
\* the comparison of sizes (a value seen above the edge is refused)
AllDifferent_is_assignment_invalid_without_size(c, m, edge) ==
    LET assignment == m.edges[edge + 1].assignment
        source == m.edges[edge + 1].from
        source_layer == m.nodes[source + 1].layer
        source_index == m.nodes[source + 1].index_in_layer
        td == c.top_down_properties[source_layer + 1][source_index + 1]
    IN IF ~SparseBitset_known(c.domain, assignment) THEN "panic"
       ELSE IF assignment \in td.value_some_path THEN "invalid"
       ELSE "valid"

\* Mutant of AllDifferent_is_assignment_invalid: the Hall test on the
\* variables above the edge is left out
AllDifferent_is_assignment_invalid_without_up(c, m, edge) ==
    LET assignment == m.edges[edge + 1].assignment
        source == m.edges[edge + 1].from
        source_layer == m.nodes[source + 1].layer
        source_index == m.nodes[source + 1].index_in_layer
        target == m.edges[edge + 1].to
        target_layer == m.nodes[target + 1].layer
        target_index == m.nodes[target + 1].index_in_layer
        td == c.top_down_properties[source_layer + 1][source_index + 1]
        bu == c.bottom_up_properties[target_layer + 1][target_index + 1]
        decision == m.layers[source_layer + 1].decision
    IN IF ~SparseBitset_known(c.domain, assignment) THEN "panic"
       ELSE IF assignment \in td.value_all_path \/ assignment \in bu.value_all_path
       THEN "invalid"
       ELSE IF decision \notin DOMAIN c.map_hall_set THEN "panic"
       ELSE
         LET hall_set_size_up == c.map_hall_set[decision][1]
             hall_set_size_down == c.map_hall_set[decision][2]
             is_on_td_path == assignment \in td.value_some_path
             is_on_bu_path == assignment \in bu.value_some_path
         IN IF is_on_bu_path
               /\ hall_set_size_down = SparseBitset_size(bu.value_some_path, c.domain)
            THEN "invalid"
            ELSE IF is_on_bu_path /\ is_on_td_path
               /\ hall_set_size_up + hall_set_size_down =
                    SparseBitset_size_union(td.value_some_path, bu.value_some_path, c.domain)
            THEN "invalid"
            ELSE "valid"

\* Mutant of AllDifferent_is_assignment_invalid: the Hall test on the
\* variables below the edge is left out
AllDifferent_is_assignment_invalid_without_down(c, m, edge) ==
    LET assignment == m.edges[edge + 1].assignment
        source == m.edges[edge + 1].from
        source_layer == m.nodes[source + 1].layer
        source_index == m.nodes[source + 1].index_in_layer
        target == m.edges[edge + 1].to
        target_layer == m.nodes[target + 1].layer
        target_index == m.nodes[target + 1].index_in_layer
        td == c.top_down_properties[source_layer + 1][source_index + 1]
        bu == c.bottom_up_properties[target_layer + 1][target_index + 1]
        decision == m.layers[source_layer + 1].decision
    IN IF ~SparseBitset_known(c.domain, assignment) THEN "panic"
       ELSE IF assignment \in td.value_all_path \/ assignment \in bu.value_all_path
       THEN "invalid"
       ELSE IF decision \notin DOMAIN c.map_hall_set THEN "panic"
       ELSE
         LET hall_set_size_up == c.map_hall_set[decision][1]
             hall_set_size_down == c.map_hall_set[decision][2]
             is_on_td_path == assignment \in td.value_some_path
             is_on_bu_path == assignment \in bu.value_some_path
         IN IF is_on_td_path
               /\ hall_set_size_up = SparseBitset_size(td.value_some_path, c.domain)
            THEN "invalid"
            ELSE IF is_on_bu_path /\ is_on_td_path
               /\ hall_set_size_up + hall_set_size_down =
                    SparseBitset_size_union(td.value_some_path, bu.value_some_path, c.domain)
            THEN "invalid"
            ELSE "valid"

\* Mutant of AllDifferent_is_assignment_invalid: the Hall test on the
\* variables above and below together is left out
AllDifferent_is_assignment_invalid_without_union(c, m, edge) ==
    LET assignment == m.edges[edge + 1].assignment
        source == m.edges[edge + 1].from
        source_layer == m.nodes[source + 1].layer
        source_index == m.nodes[source + 1].index_in_layer
        target == m.edges[edge + 1].to
        target_layer == m.nodes[target + 1].layer
        target_index == m.nodes[target + 1].index_in_layer
        td == c.top_down_properties[source_layer + 1][source_index + 1]
        bu == c.bottom_up_properties[target_layer + 1][target_index + 1]
        decision == m.layers[source_layer + 1].decision
    IN IF ~SparseBitset_known(c.domain, assignment) THEN "panic"
       ELSE IF assignment \in td.value_all_path \/ assignment \in bu.value_all_path
       THEN "invalid"
       ELSE IF decision \notin DOMAIN c.map_hall_set THEN "panic"
       ELSE
         LET hall_set_size_up == c.map_hall_set[decision][1]
             hall_set_size_down == c.map_hall_set[decision][2]
             is_on_td_path == assignment \in td.value_some_path
             is_on_bu_path == assignment \in bu.value_some_path
         IN IF is_on_td_path
               /\ hall_set_size_up = SparseBitset_size(td.value_some_path, c.domain)
            THEN "invalid"
            ELSE IF is_on_bu_path
               /\ hall_set_size_down = SparseBitset_size(bu.value_some_path, c.domain)
            THEN "invalid"
            ELSE "valid"

\* AllDifferent::is_assignment_invalid: "invalid", "valid", or "panic" when a
\* lookup unwraps None
AllDifferent_is_assignment_invalid(c, m, edge) ==
    LET assignment == m.edges[edge + 1].assignment
        source == m.edges[edge + 1].from
        source_layer == m.nodes[source + 1].layer
        source_index == m.nodes[source + 1].index_in_layer
        target == m.edges[edge + 1].to
        target_layer == m.nodes[target + 1].layer
        target_index == m.nodes[target + 1].index_in_layer
        td == c.top_down_properties[source_layer + 1][source_index + 1]
        bu == c.bottom_up_properties[target_layer + 1][target_index + 1]
        decision == m.layers[source_layer + 1].decision
    IN IF ~SparseBitset_known(c.domain, assignment) THEN "panic"
       ELSE IF assignment \in td.value_all_path \/ assignment \in bu.value_all_path
       THEN "invalid"
       ELSE IF decision \notin DOMAIN c.map_hall_set THEN "panic"
       ELSE
         LET hall_set_size_up == c.map_hall_set[decision][1]
             hall_set_size_down == c.map_hall_set[decision][2]
             is_on_td_path == assignment \in td.value_some_path
             is_on_bu_path == assignment \in bu.value_some_path
         IN IF is_on_td_path
               /\ hall_set_size_up = SparseBitset_size(td.value_some_path, c.domain)
            THEN "invalid"
            ELSE IF is_on_bu_path
               /\ hall_set_size_down = SparseBitset_size(bu.value_some_path, c.domain)
            THEN "invalid"
            ELSE IF is_on_bu_path /\ is_on_td_path
               /\ hall_set_size_up + hall_set_size_down =
                    SparseBitset_size_union(td.value_some_path, bu.value_some_path, c.domain)
            THEN "invalid"
            ELSE "valid"


\* ---------------------------------------------- NotEquals (propagator)
NotEquals_top_down_edge(c, m, target_layer, i, j) ==
    IF c.panicked THEN c
    ELSE
      LET target_node == node_at(m, target_layer, i)
          edge == m.nodes[target_node + 1].parents_edges[j + 1]
          assignment == m.edges[edge + 1].assignment
          source_node == m.edges[edge + 1].from
          source_layer == m.nodes[source_node + 1].layer
          source_index == m.nodes[source_node + 1].index_in_layer
          layer_in_scope == is_layer_in_scope(c, source_layer)
      IN IF ~(source_layer < target_layer)
            \/ (layer_in_scope /\ ~SparseBitset_known(c.domain, assignment))
         THEN [c EXCEPT !.panicked = TRUE]
         ELSE [c EXCEPT !.top_down_properties[target_layer + 1][i + 1] =
                  (IF layer_in_scope THEN @ \cup {assignment} ELSE @)
                  \cup c.top_down_properties[source_layer + 1][source_index + 1]]

\* NotEquals::update_property_top_down
NotEquals_update_property_top_down(c, m) ==
    ForUp(LAMBDA c1, target_layer :
              ForUp(LAMBDA c2, i :
                        IF c2.panicked THEN c2
                        ELSE ForUp(LAMBDA cc, j :
                                       NotEquals_top_down_edge(cc, m, target_layer, i, j),
                                   [c2 EXCEPT !.top_down_properties[target_layer + 1][i + 1] =
                                                  Bitset_reset_zero],
                                   0, number_parents(m, node_at(m, target_layer, i))),
                    c1, 0, Layer_number_nodes(m, target_layer)),
          c, 1, number_layers(m))

NotEquals_bottom_up_edge(c, m, source_layer, i, j) ==
    IF c.panicked THEN c
    ELSE
      LET layer_in_scope == is_layer_in_scope(c, source_layer)
          source_node == node_at(m, source_layer, i)
          edge == m.nodes[source_node + 1].children_edges[j + 1]
          assignment == m.edges[edge + 1].assignment
          target_node == m.edges[edge + 1].to
          target_layer == m.nodes[target_node + 1].layer
          target_index == m.nodes[target_node + 1].index_in_layer
      IN IF ~(source_layer < target_layer)
            \/ (layer_in_scope /\ ~SparseBitset_known(c.domain, assignment))
         THEN [c EXCEPT !.panicked = TRUE]
         ELSE [c EXCEPT !.bottom_up_properties[source_layer + 1][i + 1] =
                  (IF layer_in_scope THEN @ \cup {assignment} ELSE @)
                  \cup c.bottom_up_properties[target_layer + 1][target_index + 1]]

\* NotEquals::update_property_bottom_up
NotEquals_update_property_bottom_up(c, m) ==
    ForDown(LAMBDA c1, source_layer :
                ForUp(LAMBDA c2, i :
                          IF c2.panicked THEN c2
                          ELSE ForUp(LAMBDA cc, j :
                                         NotEquals_bottom_up_edge(cc, m, source_layer, i, j),
                                     [c2 EXCEPT !.bottom_up_properties[source_layer + 1][i + 1] =
                                                    Bitset_reset_zero],
                                     0, number_children(m, node_at(m, source_layer, i))),
                      c1, 0, Layer_number_nodes(m, source_layer)),
            c, 0, number_layers(m) - 1)

\* NotEquals::is_assignment_invalid
NotEquals_is_assignment_invalid(c, m, edge) ==
    LET assignment == m.edges[edge + 1].assignment
        source == m.edges[edge + 1].from
        source_layer == m.nodes[source + 1].layer
        source_index == m.nodes[source + 1].index_in_layer
        decision == m.layers[source_layer + 1].decision
        td == c.top_down_properties[source_layer + 1][source_index + 1]
        bu == c.bottom_up_properties[source_layer + 1][source_index + 1]
        x == c.variables[1]
        consulted == IF decision = x
                     THEN (IF c.layer_x < c.layer_y THEN bu ELSE td)
                     ELSE (IF c.layer_x > c.layer_y THEN bu ELSE td)
    IN IF ~SparseBitset_known(c.domain, assignment) THEN "panic"
       ELSE IF assignment \in consulted /\ SparseBitset_size(consulted, c.domain) = 1
       THEN "invalid"
       ELSE "valid"

\* ------------------------------------------------ Constraint (dispatch)
update_property_top_down(c, m) ==
    IF c.kind = "AllDifferent" THEN AllDifferent_update_property_top_down(c, m)
    ELSE NotEquals_update_property_top_down(c, m)

update_property_bottom_up(c, m) ==
    IF c.kind = "AllDifferent" THEN AllDifferent_update_property_bottom_up(c, m)
    ELSE NotEquals_update_property_bottom_up(c, m)

is_assignment_invalid(c, m, edge) ==
    IF c.kind = "AllDifferent" THEN AllDifferent_is_assignment_invalid(c, m, edge)
    ELSE NotEquals_is_assignment_invalid(c, m, edge)


\* ------------------------------------------------------- split and merge
\* Mdd::split_node: returns the world and the handle of the new node
split_node(w, node) ==
    LET layer == w.mdd.nodes[node + 1].layer
        new_node == Len(w.mdd.nodes)
        w1 == add_node(w, layer)
        move_parent(m, i) ==
            LET edge == m.nodes[node + 1].parents_edges[i + 1]
                m1 == [m EXCEPT !.edges[edge + 1].active = FALSE]
                from == m1.edges[edge + 1].from
                assignment == m1.edges[edge + 1].assignment
                m2 == add_edge(m1, from, new_node, assignment)
            IN [m2 EXCEPT !.nodes[node + 1].parents_edges = SwapRemove(@, i)]
        m_parents == ForDown(move_parent, w1.mdd, 0, number_parents(w1.mdd, node) \div 2)
        copy_child(m, i) ==
            LET edge == m.nodes[node + 1].children_edges[i + 1]
            IN add_edge(m, new_node, m.edges[edge + 1].to, m.edges[edge + 1].assignment)
        m_children == ForUp(copy_child, m_parents, 0, number_children(m_parents, node))
    IN [mdd |-> m_children, problem |-> w1.problem, new_node |-> new_node]

\* Mdd::merge_node(node, into)
merge_node(m, node, into) ==
    LET m0 == [m EXCEPT !.nodes[node + 1].active = FALSE]
        move_parent(mm, i) ==
            LET edge == mm.nodes[node + 1].parents_edges[i + 1]
            IN [mm EXCEPT !.edges[edge + 1].to = into,
                          !.nodes[into + 1].parents_edges = Append(@, edge)]
        m1 == ForUp(move_parent, m0, 0, number_parents(m0, node))
    IN ForUp(LAMBDA mm, i : remove_child_of(mm, node, i),
             m1, 0, number_children(m1, node))

\* Constraint::hash_node: what a constraint feeds to the hasher for a node.
\* AllDifferent mixes in the A and S words of both directions; NotEquals
\* contributes nothing.
Constraint_hash_node(c, m, node) ==
    LET layer == m.nodes[node + 1].layer
        index == m.nodes[node + 1].index_in_layer
        td == c.top_down_properties[layer + 1][index + 1]
        bu == c.bottom_up_properties[layer + 1][index + 1]
    IN IF c.kind = "AllDifferent"
       THEN <<td.value_all_path, td.value_some_path,
              bu.value_all_path, bu.value_some_path>>
       ELSE <<>>

\* Mdd::hash_node: the hasher is fed by every constraint in turn; the digest
\* is modelled by what was fed (no collision between different inputs)
hash_node(m, problem, node) ==
    [c \in 1..Len(problem.constraints) |->
        Constraint_hash_node(problem.constraints[c], m, node)]

\* FxHashMap::get on the cache: the node cached under the digest, or -1
cache_get(m, node_hash) ==
    LET hits == {k \in 1..Len(m.cache) : m.cache[k].hash = node_hash}
    IN IF hits = {} THEN -1 ELSE m.cache[CHOOSE k \in hits : TRUE].node

\* ---------------------------------------------------------------- state
VARIABLES
    problem,        \* the Problem: variables, constraints, variable_ordering
    mdd,            \* the Mdd
    pc,             \* where the running call stands
    constraint,     \* propagate_constraints: the constraint popped last
    layer,          \* propagate_constraints: the layer scanned next
    caller,         \* who called propagate_constraints: "user" or "refine"
    max_width,      \* refine: its argument
    refine_layer,   \* refine: the layer being refined
    refine_left,    \* refine: iterations left of `for _ in width..max_width`
    new_node,       \* refine: the node split_node returned
    propagates,     \* calls of propagate_constraints made by the user so far
    refines,        \* calls of refine made by the user so far
    began_at,       \* history: pc when the user's current call began
    active_before,  \* history: the edges active when the user's current call began
    history,        \* history: the edges active when the constraint was popped
                    \* (pass_active); the number of private operations called
                    \* directly (calls), the last of them (op, node, into),
                    \* the Mdd it was called on (before), the number of
                    \* propagate_constraints calls made by then (at), and
                    \* the operations called so far (ops)
    bitsets         \* two dense Bitsets a and b, and the last call made on them

vars == <<problem, mdd, pc, constraint, layer, caller, max_width,
          refine_layer, refine_left, new_node, propagates, refines,
          began_at, active_before, history, bitsets>>

\* The handles of the edges whose active flag is set
ActiveEdges(m) == {e \in 0..(Len(m.edges) - 1) : m.edges[e + 1].active}


\* ------------------------------------------------------ initial problems
Vars == 0..(NumVars - 1)

Values == 0..MaxVal

\* The values of a set in ascending order, as a domain vector
RECURSIVE Ascending(_)
Ascending(S) ==
    IF S = {} THEN <<>>
    ELSE LET lo == CHOOSE x \in S : \A y \in S : x <= y
         IN <<lo>> \o Ascending(S \ {lo})

\* Domain vectors handed to add_variable
Domains ==
    { <<>>, <<0>>, <<0, 1>>, Ascending(Values), Ascending(Values \ {0}) }

LastVar == NumVars - 1

\* The constraints of a problem and the clues set afterwards:
\* [calls |-> the constraints, clues |-> the calls of equal()].  A call is
\* [via |-> the function called, scope |-> its variables]; via is
\* "all_different" or "not_equals" (the factories), or "add_constraint"
\* (Problem::add_constraint called with AllDifferent::new(problem, scope)).
Call(via, scope) == [via |-> via, scope |-> scope]

Clue(variable, value) == [variable |-> variable, value |-> value]

Menu(calls, clues) == [calls |-> calls, clues |-> clues]

PropagateMenus ==
    { Menu(<<>>, <<>>),
      Menu(<<Call("all_different", Ascending(Vars))>>, <<>>),
      Menu(<<Call("all_different", <<0, 1>>)>>, <<>>),
      Menu(<<Call("all_different", <<LastVar - 1, LastVar>>)>>, <<>>),
      Menu(<<Call("all_different", <<0, 1>>),
             Call("all_different", Ascending(Vars \ {0}))>>, <<>>),
      Menu(<<Call("not_equals", <<0, 1>>)>>, <<>>),
      Menu(<<Call("not_equals", <<LastVar, 0>>)>>, <<>>),
      Menu(<<Call("all_different", Ascending(Vars)),
             Call("not_equals", <<0, LastVar>>)>>, <<>>),
      Menu(<<Call("add_constraint", Ascending(Vars))>>, <<>>),
      Menu(<<Call("all_different", Ascending(Vars))>>, <<Clue(1, 0)>>),
      Menu(<<Call("all_different", Ascending(Vars))>>, <<Clue(0, MaxVal)>>) }

RefineMenus ==
    { Menu(<<>>, <<>>),
      Menu(<<Call("all_different", Ascending(Vars))>>, <<>>),
      Menu(<<Call("all_different", <<0, 1>>)>>, <<>>),
      Menu(<<Call("not_equals", <<0, LastVar>>)>>, <<>>) }

\* Variable orderings handed to set_variable_ordering (variable -> layer)
Natural == [v \in 1..NumVars |-> v - 1]

Reversed == [v \in 1..NumVars |-> NumVars - v]

AddConstraint(p, call) ==
    IF call.via = "all_different" THEN all_different(p, call.scope)
    ELSE IF call.via = "not_equals" THEN not_equals(p, call.scope[1], call.scope[2])
    ELSE Problem_add_constraint(p, AllDifferent_new(p, call.scope))

\* The modelling part of the test set-up: variables, constraints, clues
BuildProblem(domains, menu) ==
    LET p0 == ForUp(LAMBDA p, v : Problem_add_variable(p, domains[v + 1]),
                    Problem_default, 0, Len(domains))
        p1 == ForEach(AddConstraint, p0, menu.calls)
    IN ForEach(LAMBDA p, clue : equal(p, clue.variable, clue.value), p1, menu.clues)

\* The test set-up: variables, constraints, clues, ordering, Mdd::new
BuildWorld(domains, menu, ordering) ==
    Mdd_new(Problem_set_variable_ordering(BuildProblem(domains, menu), ordering))

\* No call made on a dense Bitset yet
NoBitsetCall == [op |-> "none", on |-> "a", element |-> 0, value |-> 0, panicked |-> FALSE]

\* Two bitsets fresh from Bitset::new(n_a) and Bitset::new(n_b)
Bitsets_new(n_a, n_b) ==
    [a |-> Bitset_new(n_a), b |-> Bitset_new(n_b), n_a |-> n_a, n_b |-> n_b,
     last |-> NoBitsetCall, before |-> <<Bitset_new(n_a), Bitset_new(n_b)>>, calls |-> 0]

\* The state in which the world w (a problem and the Mdd built for it) is
\* handed to the user at position `at`
InitMdd(w, at) ==
    /\ problem = w.problem
    /\ mdd = w.mdd
    /\ pc = at
    /\ constraint = -1
    /\ layer = 0
    /\ caller = "user"
    /\ max_width = 0
    /\ refine_layer = 0
    /\ refine_left = 0
    /\ new_node = -1
    /\ propagates = 0
    /\ refines = 0
    /\ began_at = "idle"
    /\ active_before = {}
    /\ history = [pass_active |-> {}, calls |-> 0, op |-> "none",
                  node |-> -1, into |-> -1, before |-> w.mdd, at |-> 0,
                  ops |-> {}]

InitWorld(w, at) == InitMdd(w, at) /\ bitsets = Bitsets_new(1, 1)

InitWith(menus, orderings) ==
    \E domains \in [1..NumVars -> Domains], menu \in menus, ordering \in orderings :
        InitWorld(BuildWorld(domains, menu, ordering), "idle")

Init == InitWith(PropagateMenus, {Natural, Reversed})

InitRefine == InitWith(RefineMenus, {Natural})

\* ------------------------------------------------- propagate_constraints
Panicked(w) ==
    w.mdd.panicked \/ \E c \in 1..Len(w.problem.constraints) : w.problem.constraints[c].panicked

\* Lines 140-143: every constraint is pushed and its bit set
enqueue_all(m, p) ==
    ForUp(LAMBDA mm, c :
              IF mm.panicked THEN mm
              ELSE IF c \div WordBits >= mm.scheduled_words THEN Panic(mm)
              ELSE [mm EXCEPT !.propagation_queue = Append(@, c),
                              !.scheduled_constraint = @ \cup {c}],
          m, 0, Problem_number_constraints(p))

\* Lines 144-147: pop, clear the bit, recompute both properties
pop_and_update(w) ==
    LET m == w.mdd
        n == Len(m.propagation_queue)
        c == m.propagation_queue[n]
        m1 == [m EXCEPT !.propagation_queue = SubSeq(@, 1, n - 1),
                        !.scheduled_constraint = @ \ {c}]
        td == update_property_top_down(w.problem.constraints[c + 1], m1)
        bu == IF td.panicked THEN td ELSE update_property_bottom_up(td, m1)
    IN [mdd |-> m1,
        problem |-> [w.problem EXCEPT !.constraints[c + 1] = bu],
        constraint |-> c]

\* The scan of a layer before its first node: s = [mdd, panicked,
\* to_schedule] and the log of the scan: began (each node scanned and its
\* child list when its scan began), tested (the edges handed to
\* is_assignment_invalid, in order), ended (the active edges when the scan
\* of each node ended), overrun (child_edge_at read beyond the list)
scan_begin(m) ==
    [mdd |-> m, panicked |-> FALSE, to_schedule |-> FALSE,
     began |-> <<>>, tested |-> <<>>, ended |-> <<>>, overrun |-> FALSE]

\* Line 152-153: the scan of a node begins
scan_node_begin(s, node) ==
    [s EXCEPT !.began = Append(@, [node |-> node,
                                   children |-> s.mdd.nodes[node + 1].children_edges])]

\* The scan of a node ran to its end
scan_node_end(s) ==
    IF s.mdd.panicked \/ s.panicked THEN s
    ELSE [s EXCEPT !.ended = Append(@, ActiveEdges(s.mdd))]

\* Lines 154-160: the scan of the children of one node, by index in reverse
\* over the length read before the loop
scan_edge(s, c, node, i) ==
    IF s.mdd.panicked \/ s.panicked THEN s
    ELSE IF i >= number_children(s.mdd, node)
    THEN [s EXCEPT !.mdd = Panic(@), !.overrun = TRUE]
    ELSE
      LET edge == s.mdd.nodes[node + 1].children_edges[i + 1]
          verdict == is_assignment_invalid(c, s.mdd, edge)
          t == [s EXCEPT !.tested = Append(@, [node |-> node, edge |-> edge])]
      IN IF verdict = "panic" THEN [t EXCEPT !.panicked = TRUE]
         ELSE IF verdict = "invalid"
         THEN [t EXCEPT !.mdd = remove_child_of(@, node, i), !.to_schedule = TRUE]
         ELSE t

\* Mutant of scan_layer: the reverse scan stops before index 0
scan_layer_skipping_first(m, c, l) ==
    ForUp(LAMBDA s, node_index :
              IF s.mdd.panicked \/ s.panicked THEN s
              ELSE LET node == node_at(s.mdd, l, node_index)
                   IN scan_node_end(
                          ForDown(LAMBDA ss, i : scan_edge(ss, c, node, i),
                                  scan_node_begin(s, node),
                                  1, number_children(s.mdd, node))),
          scan_begin(m),
          0, Layer_number_nodes(m, l))

\* Mutant of scan_layer: the children are scanned by ascending index
scan_layer_forward(m, c, l) ==
    ForUp(LAMBDA s, node_index :
              IF s.mdd.panicked \/ s.panicked THEN s
              ELSE LET node == node_at(s.mdd, l, node_index)
                   IN scan_node_end(
                          ForUp(LAMBDA ss, i : scan_edge(ss, c, node, i),
                                scan_node_begin(s, node),
                                0, number_children(s.mdd, node))),
          scan_begin(m),
          0, Layer_number_nodes(m, l))

\* Lines 151-161: all the nodes of the layer
scan_layer(m, c, l) ==
    ForUp(LAMBDA s, node_index :
              IF s.mdd.panicked \/ s.panicked THEN s
              ELSE LET node == node_at(s.mdd, l, node_index)
                   IN scan_node_end(
                          ForDown(LAMBDA ss, i : scan_edge(ss, c, node, i),
                                  scan_node_begin(s, node),
                                  0, number_children(s.mdd, node))),
          scan_begin(m),
          0, Layer_number_nodes(m, l))

\* Mutant of schedule: a layer that lost an edge wakes no constraint
schedule_nothing(m, p, l) == m

\* Mutant of schedule: the constraints are pushed whether their bit is set
\* or not
schedule_unconditionally(m, p, l) ==
    LET decision == m.layers[l + 1].decision
    IN ForEach(LAMBDA mm, c :
                   IF mm.panicked THEN mm
                   ELSE IF c \div WordBits >= mm.scheduled_words THEN Panic(mm)
                   ELSE [mm EXCEPT !.scheduled_constraint = @ \cup {c},
                                   !.propagation_queue = Append(@, c)],
               m, p.variables[decision + 1].constraints)

\* Lines 162-169: the constraints of the decision variable of the layer are
\* pushed unless their bit is set
schedule(m, p, l) ==
    LET decision == m.layers[l + 1].decision
    IN ForEach(LAMBDA mm, c :
                   IF mm.panicked THEN mm
                   ELSE IF c \div WordBits >= mm.scheduled_words THEN Panic(mm)
                   ELSE IF c \in mm.scheduled_constraint THEN mm
                   ELSE [mm EXCEPT !.scheduled_constraint = @ \cup {c},
                                   !.propagation_queue = Append(@, c)],
               m, p.variables[decision + 1].constraints)

\* Lines 148-172 for one layer
propagate_layer(w, c, l) ==
    IF ~is_layer_in_scope(w.problem.constraints[c + 1], l) THEN w
    ELSE
      LET s == scan_layer(w.mdd, w.problem.constraints[c + 1], l)
          m == IF s.to_schedule /\ ~s.mdd.panicked /\ ~s.panicked
               THEN schedule(s.mdd, w.problem, l) ELSE s.mdd
      IN [mdd |-> m,
          problem |-> [w.problem EXCEPT !.constraints[c + 1].panicked = @ \/ s.panicked]]

World == [mdd |-> mdd, problem |-> problem]

Running == pc \in {"loop", "scan", "refine_layer", "refine_split", "refine_hash"}

AtRest == pc \in {"idle", "returned", "refined"}

\* The user calls mdd.propagate_constraints(problem)
PropagateBegin ==
    /\ AtRest
    /\ propagates < MaxPropagates
    /\ LET m == enqueue_all(mdd, problem) IN
       /\ mdd' = m
       /\ pc' = IF m.panicked THEN "aborted" ELSE "loop"
    /\ caller' = "user"
    /\ propagates' = propagates + 1
    /\ began_at' = pc
    /\ active_before' = ActiveEdges(mdd)
    /\ UNCHANGED <<problem, constraint, layer, max_width, refine_layer, refine_left,
                   new_node, refines, history, bitsets>>

\* while let Some(constraint) = queue.pop(): properties are recomputed
PopConstraint ==
    /\ pc = "loop"
    /\ mdd.propagation_queue # <<>>
    /\ \E w \in {pop_and_update(World)} :
       /\ mdd' = w.mdd
       /\ problem' = w.problem
       /\ constraint' = w.constraint
       /\ pc' = IF Panicked(w) THEN "aborted"
                ELSE IF number_layers(w.mdd) - 1 > 0 THEN "scan" ELSE "loop"
    /\ layer' = 0
    /\ history' = [history EXCEPT !.pass_active = ActiveEdges(mdd)]
    /\ UNCHANGED <<caller, max_width, refine_layer, refine_left, new_node, propagates, refines, began_at, active_before, bitsets>>

\* One iteration of `for layer in 0..layers.len() - 1`
ScanLayer ==
    /\ pc = "scan"
    /\ \E w \in {propagate_layer(World, constraint, layer)} :
       /\ mdd' = w.mdd
       /\ problem' = w.problem
       /\ pc' = IF Panicked(w) THEN "aborted"
                ELSE IF layer + 1 < number_layers(w.mdd) - 1 THEN "scan" ELSE "loop"
    /\ layer' = layer + 1
    /\ UNCHANGED <<constraint, caller, max_width, refine_layer, refine_left, new_node, propagates, refines, began_at, active_before, history, bitsets>>

\* The queue is empty: propagate_constraints returns to its caller
PropagateReturn ==
    /\ pc = "loop"
    /\ mdd.propagation_queue = <<>>
    /\ pc' = IF caller = "user" THEN "returned" ELSE "refine_hash"
    /\ UNCHANGED <<problem, mdd, constraint, layer, caller, max_width,
                   refine_layer, refine_left, new_node, propagates, refines, began_at, active_before, history, bitsets>>


\* ----------------------------------------------------------------- refine
\* The first node of the layer with more than one parent, or -1
node_to_split(m, l) ==
    LET hits == {k \in 1..Layer_number_nodes(m, l) :
                    number_parents(m, node_at(m, l, k - 1)) > 1}
    IN IF hits = {} THEN -1
       ELSE node_at(m, l, (CHOOSE k \in hits : \A j \in hits : k <= j) - 1)

\* The user calls mdd.refine(problem, w)
RefineBegin ==
    /\ AtRest
    /\ refines < MaxRefines
    /\ \E w \in 1..MaxWidth : max_width' = w
    /\ refine_layer' = 1
    /\ pc' = "refine_layer"
    /\ refines' = refines + 1
    /\ began_at' = "refine"
    /\ active_before' = ActiveEdges(mdd)
    /\ UNCHANGED <<problem, mdd, constraint, layer, caller, refine_left, new_node,
                   propagates, history, bitsets>>

\* Mutant of RefineLayer: the inner loop runs over 0..max_width
RefineLayer_from_zero ==
    /\ pc = "refine_layer"
    /\ IF refine_layer < number_layers(mdd) - 1
       THEN /\ refine_left' = max_width
            /\ pc' = "refine_split"
       ELSE /\ refine_left' = 0
            /\ pc' = "refined"
    /\ UNCHANGED <<problem, mdd, constraint, layer, caller, max_width,
                   refine_layer, new_node, propagates, refines, began_at, active_before, history, bitsets>>

\* Mutant of RefineLayer: the inner loop runs over width..=max_width
RefineLayer_inclusive ==
    /\ pc = "refine_layer"
    /\ IF refine_layer < number_layers(mdd) - 1
       THEN /\ refine_left' = Max2(max_width + 1 - Layer_number_nodes(mdd, refine_layer), 0)
            /\ pc' = "refine_split"
       ELSE /\ refine_left' = 0
            /\ pc' = "refined"
    /\ UNCHANGED <<problem, mdd, constraint, layer, caller, max_width,
                   refine_layer, new_node, propagates, refines, began_at, active_before, history, bitsets>>

\* `for layer in 1..self.layers.len() - 1`: the width is read once per layer
RefineLayer ==
    /\ pc = "refine_layer"
    /\ IF refine_layer < number_layers(mdd) - 1
       THEN /\ refine_left' = Max2(max_width - Layer_number_nodes(mdd, refine_layer), 0)
            /\ pc' = "refine_split"
       ELSE /\ refine_left' = 0
            /\ pc' = "refined"
    /\ UNCHANGED <<problem, mdd, constraint, layer, caller, max_width,
                   refine_layer, new_node, propagates, refines, began_at, active_before, history, bitsets>>

\* One iteration of `for _ in width..max_width` up to the call of
\* propagate_constraints (whose first lines push every constraint)
RefineSplit ==
    /\ pc = "refine_split"
    /\ LET node == node_to_split(mdd, refine_layer) IN
       IF refine_left = 0 \/ node = -1
       THEN /\ refine_layer' = refine_layer + 1
            /\ pc' = "refine_layer"
            /\ UNCHANGED <<problem, mdd, caller, refine_left, new_node>>
       ELSE LET w == split_node(World, node)
                m == enqueue_all(w.mdd, w.problem)
            IN /\ mdd' = m
               /\ problem' = w.problem
               /\ new_node' = w.new_node
               /\ refine_left' = refine_left - 1
               /\ caller' = "refine"
               /\ pc' = IF m.panicked THEN "aborted" ELSE "loop"
               /\ UNCHANGED refine_layer
    /\ UNCHANGED <<constraint, layer, max_width, propagates, refines, began_at, active_before, history, bitsets>>

\* After propagate_constraints returned to refine: the digest of the new node
\* is looked up; a hit merges the new node into the cached one, a miss caches it
RefineHash ==
    /\ pc = "refine_hash"
    /\ LET node_hash == hash_node(mdd, problem, new_node)
           n == cache_get(mdd, node_hash)
           m == IF n # -1 THEN merge_node(mdd, new_node, n)
                ELSE [mdd EXCEPT !.cache = Append(@, [hash |-> node_hash, node |-> new_node])]
       IN /\ mdd' = m
          /\ pc' = IF m.panicked THEN "aborted" ELSE "refine_split"
    /\ caller' = "user"
    /\ UNCHANGED <<problem, constraint, layer, max_width, refine_layer,
                   refine_left, new_node, propagates, refines, began_at, active_before, history, bitsets>>

\* ------------------------------------------------------- specifications
\* propagate_constraints alone, on the MDD Mdd::new built
Next ==
    \/ PropagateBegin
    \/ PopConstraint
    \/ ScanLayer
    \/ PropagateReturn

Spec == Init /\ [][Next]_vars

\* propagate_constraints and refine
NextRefine ==
    \/ PropagateBegin
    \/ PopConstraint
    \/ ScanLayer
    \/ PropagateReturn
    \/ RefineBegin
    \/ RefineLayer
    \/ RefineSplit
    \/ RefineHash

SpecRefine == InitRefine /\ [][NextRefine]_vars

\* propagate_constraints on the problems of the Hall-set tests: one
\* all_different over all the variables, larger domains
HallVars == 4

HallMaxVal == 3

HallDomains ==
    { <<0>>, <<0, 1>>, <<1, 2>>, Ascending(0..(HallMaxVal - 1)), Ascending(0..HallMaxVal) }

HallMenu == Menu(<<Call("all_different", Ascending(0..(HallVars - 1)))>>, <<>>)

HallNatural == [v \in 1..HallVars |-> v - 1]

HallReversed == [v \in 1..HallVars |-> HallVars - v]

InitHall ==
    \E domains \in [1..HallVars -> HallDomains], ordering \in {HallNatural, HallReversed} :
        InitWorld(BuildWorld(domains, HallMenu, ordering), "idle")

SpecHall == InitHall /\ [][Next]_vars


\* propagate_constraints on the 4 x 4 sudoku of the test `sudoku`
SudokuSide == 4

SudokuDomain == Ascending(0..(SudokuSide - 1))

\* Rows, columns, blocks: the scopes of the twelve all_different, in the
\* order the test adds them
SudokuScopes ==
    << <<0, 1, 2, 3>>, <<4, 5, 6, 7>>, <<8, 9, 10, 11>>, <<12, 13, 14, 15>>,
       <<0, 4, 8, 12>>, <<1, 5, 9, 13>>, <<2, 6, 10, 14>>, <<3, 7, 11, 15>>,
       <<0, 1, 4, 5>>, <<2, 3, 6, 7>>, <<8, 9, 12, 13>>, <<10, 11, 14, 15>> >>

\* The evidence, set by equal() after the constraints
SudokuClues == <<Clue(0, 0), Clue(5, 1), Clue(11, 2), Clue(12, 1), Clue(14, 0)>>

SudokuMenu ==
    Menu([i \in 1..Len(SudokuScopes) |-> Call("all_different", SudokuScopes[i])],
         SudokuClues)

InitSudoku ==
    InitWorld(BuildWorld([v \in 1..(SudokuSide * SudokuSide) |-> SudokuDomain],
                         SudokuMenu,
                         [v \in 1..(SudokuSide * SudokuSide) |-> v - 1]),
              "idle")

SpecSudoku == InitSudoku /\ [][Next]_vars

\* ------------------------------------------------------- calls on Bitsets
\* Largest number of words of the bitsets explored
MaxWords == 2

\* Number of calls of insert, remove and reset made before a query
MaxBitsetCalls == 2

\* The sizes handed to Bitset::new: 1 and the sizes around the multiples of
\* the word width
BitsetSizes ==
    {n \in {k * WordBits + d : k \in 0..MaxWords, d \in {-1, 0, 1}} : n >= 1}

\* The elements tried on a bitset made for n elements: the first, the last,
\* and those on either side of a word boundary
BitsetProbes(n) ==
    {i \in {0, n - 1} \cup {k * WordBits + d : k \in 1..MaxWords, d \in {-1, 0}} :
        i >= 0 /\ i < n}

\* The patterns handed to reset: 0 and !0
BitsetPatterns == {{}, 0..(WordBits - 1)}

\* A problem without variables and its Mdd: the state of the rest of the
\* program while the bitsets are exercised
EmptyWorld == BuildWorld(<<>>, Menu(<<>>, <<>>), <<>>)

InitBitset ==
    /\ InitMdd(EmptyWorld, "idle")
    /\ \E n_a, n_b \in BitsetSizes : bitsets = Bitsets_new(n_a, n_b)

\* The user may call: no call panicked and no query was made yet
BitsetsOpen ==
    /\ ~bitsets.last.panicked
    /\ bitsets.last.op \notin {"contains", "size_union"}

\* The size given to Bitset::new for the bitset called `on`
BitsetN(on) == IF on = "a" THEN bitsets.n_a ELSE bitsets.n_b

\* The state after a call that changes the bitset `on` into `after`; a call
\* that panics changes nothing
BitsetsAfter(op, on, element, after) ==
    [bitsets EXCEPT
        !.a = IF on = "a" /\ ~after.panicked THEN after ELSE @,
        !.b = IF on = "b" /\ ~after.panicked THEN after ELSE @,
        !.last = [op |-> op, on |-> on, element |-> element, value |-> 0,
                  panicked |-> after.panicked],
        !.before = <<bitsets.a, bitsets.b>>,
        !.calls = @ + 1]

\* The state after a query on `on` that answered `value` (a count, or 1 for
\* true and 0 for false) or panicked
BitsetsAnswered(op, on, element, value, panicked) ==
    [bitsets EXCEPT
        !.last = [op |-> op, on |-> on, element |-> element, value |-> value,
                  panicked |-> panicked],
        !.before = <<bitsets.a, bitsets.b>>]

mdd_vars == <<problem, mdd, pc, constraint, layer, caller, max_width,
              refine_layer, refine_left, new_node, propagates, refines,
              began_at, active_before, history>>

BitsetInsert ==
    /\ BitsetsOpen /\ bitsets.calls < MaxBitsetCalls
    /\ \E on \in {"a", "b"} : \E element \in BitsetProbes(BitsetN(on)) :
          bitsets' = BitsetsAfter("insert", on, element,
                                  Bitset_insert(bitsets[on], element))
    /\ UNCHANGED mdd_vars

BitsetRemove ==
    /\ BitsetsOpen /\ bitsets.calls < MaxBitsetCalls
    /\ \E on \in {"a", "b"} : \E element \in BitsetProbes(BitsetN(on)) :
          bitsets' = BitsetsAfter("remove", on, element,
                                  Bitset_remove(bitsets[on], element))
    /\ UNCHANGED mdd_vars

BitsetReset ==
    /\ BitsetsOpen /\ bitsets.calls < MaxBitsetCalls
    /\ \E on \in {"a", "b"} : \E value \in BitsetPatterns :
          bitsets' = BitsetsAfter("reset", on, 0, Bitset_reset(bitsets[on], value))
    /\ UNCHANGED mdd_vars

BitsetContains ==
    /\ BitsetsOpen
    /\ \E on \in {"a", "b"} : \E element \in BitsetProbes(BitsetN(on)) :
          LET r == Bitset_contains(bitsets[on], element) IN
          bitsets' = BitsetsAnswered("contains", on, element,
                                     IF r.value THEN 1 ELSE 0, r.panicked)
    /\ UNCHANGED mdd_vars

\* self.size_union(&other): self is the bitset called `on`
BitsetSizeUnion ==
    /\ BitsetsOpen
    /\ \E on \in {"a", "b"} :
          LET other == IF on = "a" THEN "b" ELSE "a"
              r == Bitset_size_union(bitsets[on], bitsets[other])
          IN bitsets' = BitsetsAnswered("size_union", on, 0, r.value, r.panicked)
    /\ UNCHANGED mdd_vars

NextBitset ==
    \/ BitsetInsert
    \/ BitsetRemove
    \/ BitsetReset
    \/ BitsetContains
    \/ BitsetSizeUnion

SpecBitset == InitBitset /\ [][NextBitset]_vars

\* ------------------------------------------------ set_variable_ordering
\* The orderings handed to set_variable_ordering: the two permutations, one
\* that gives layer 0 to two variables, one with a layer that does not
\* exist, one too short and one too long
TwiceLayerZero == [v \in 1..NumVars |-> IF v = 1 THEN 0 ELSE v - 2]

BeyondLastLayer == [v \in 1..NumVars |-> IF v = NumVars THEN NumVars + 1 ELSE v - 1]

TooShort == SubSeq(Natural, 1, NumVars - 1)

TooLong == Append(Natural, 0)

Orderings == {Natural, Reversed, TwiceLayerZero, BeyondLastLayer, TooShort, TooLong}

\* The Mdd variable before Mdd::new is called
NotBuilt ==
    [nodes |-> <<>>, edges |-> <<>>, layers |-> <<>>, propagation_queue |-> <<>>,
     scheduled_constraint |-> {}, scheduled_words |-> 0, cache |-> <<>>,
     panicked |-> FALSE]

\* A problem with its variables, constraints and clues, and no ordering yet
InitOrdering ==
    \E domains \in [1..NumVars -> Domains], menu \in PropagateMenus :
        /\ InitMdd([problem |-> BuildProblem(domains, menu), mdd |-> NotBuilt], "modelling")
        /\ bitsets = Bitsets_new(1, 1)

\* problem.set_variable_ordering(ordering).  The only check is
\* debug_assert!(ordering.len() == self.number_variables()), compiled in
\* builds with debug assertions and absent from the others; after it, a
\* constraint panics when it indexes the ordering out of range.
SetVariableOrdering ==
    /\ pc = "modelling"
    /\ \E ordering \in Orderings, debug_assertions \in BOOLEAN :
          IF debug_assertions /\ Len(ordering) # Problem_number_variables(problem)
          THEN pc' = "aborted" /\ problem' = problem
          ELSE LET p == Problem_set_variable_ordering(problem, ordering) IN
               /\ problem' = p
               /\ pc' = IF Panicked([problem |-> p, mdd |-> mdd])
                        THEN "aborted" ELSE "ordered"
    /\ UNCHANGED <<mdd, constraint, layer, caller, max_width, refine_layer, refine_left,
                   new_node, propagates, refines, began_at, active_before, history, bitsets>>

\* Mdd::new(&mut problem) on the problem with its ordering
MddNew ==
    /\ pc = "ordered"
    /\ LET w == Mdd_new(problem) IN
       /\ mdd' = w.mdd
       /\ problem' = w.problem
       /\ pc' = IF Panicked(w) THEN "aborted" ELSE "idle"
    /\ UNCHANGED <<constraint, layer, caller, max_width, refine_layer, refine_left,
                   new_node, propagates, refines, began_at, active_before, history, bitsets>>

NextOrdering ==
    \/ SetVariableOrdering
    \/ MddNew

SpecOrdering == InitOrdering /\ [][NextOrdering]_vars

\* --------------------------------------- set_variable_ordering, repeated
\* Number of further calls of set_variable_ordering before Mdd::new
MaxOrderings == 2

\* problem.set_variable_ordering(ordering) on a problem that has an ordering
\* already: every constraint is handed the new ordering, as in the first call
SetVariableOrderingAgain ==
    /\ pc = "ordered"
    /\ history.calls < MaxOrderings
    /\ \E ordering \in Orderings, debug_assertions \in BOOLEAN :
          IF debug_assertions /\ Len(ordering) # Problem_number_variables(problem)
          THEN pc' = "aborted" /\ problem' = problem
          ELSE LET p == Problem_set_variable_ordering(problem, ordering) IN
               /\ problem' = p
               /\ pc' = IF Panicked([problem |-> p, mdd |-> mdd])
                        THEN "aborted" ELSE "ordered"
    /\ history' = [history EXCEPT !.calls = @ + 1]
    /\ UNCHANGED <<mdd, constraint, layer, caller, max_width, refine_layer, refine_left,
                   new_node, propagates, refines, began_at, active_before, bitsets>>

NextReorder ==
    \/ SetVariableOrdering
    \/ SetVariableOrderingAgain
    \/ MddNew

SpecReorder == InitOrdering /\ [][NextReorder]_vars

\* ------------------------------------- split_node, merge_node, remove_node
\* The private operations of Mdd called on their own, between calls of
\* propagate_constraints, on the Mdd those calls have produced
\* Number of direct calls in a behaviour
MaxCalls == 2

\* The record of a direct call
Called(op, node, into) ==
    [history EXCEPT !.calls = @ + 1, !.op = op, !.node = node, !.into = into,
                    !.before = mdd, !.at = propagates, !.ops = @ \cup {op}]

ActiveNodes == {n \in 0..(Len(mdd.nodes) - 1) : mdd.nodes[n + 1].active}

\* split_node(problem, node) on an active node
SplitNode ==
    /\ AtRest
    /\ history.calls < MaxCalls
    /\ \E node \in ActiveNodes :
        /\ \E w \in {split_node(World, node)} :
            /\ mdd' = w.mdd
            /\ problem' = w.problem
            /\ new_node' = w.new_node
            /\ pc' = IF w.mdd.panicked THEN "aborted" ELSE pc
        /\ history' = Called("split_node", node, -1)
    /\ UNCHANGED <<constraint, layer, caller, max_width, refine_layer, refine_left,
                   propagates, refines, began_at, active_before, bitsets>>

\* merge_node(node, into) on two active nodes of one layer
MergeNode ==
    /\ AtRest
    /\ history.calls < MaxCalls
    /\ \E node \in ActiveNodes, into \in ActiveNodes :
        /\ node # into
        /\ mdd.nodes[node + 1].layer = mdd.nodes[into + 1].layer
        /\ \E m \in {merge_node(mdd, node, into)} :
            /\ mdd' = m
            /\ pc' = IF m.panicked THEN "aborted" ELSE pc
        /\ history' = Called("merge_node", node, into)
    /\ UNCHANGED <<problem, constraint, layer, caller, max_width, refine_layer,
                   refine_left, new_node, propagates, refines, began_at,
                   active_before, bitsets>>

\* remove_node(node) on an active node
RemoveNode ==
    /\ AtRest
    /\ history.calls < MaxCalls
    /\ \E node \in ActiveNodes :
        /\ \E m \in {remove_node(mdd, node)} :
            /\ mdd' = m
            /\ pc' = IF m.panicked THEN "aborted" ELSE pc
        /\ history' = Called("remove_node", node, -1)
    /\ UNCHANGED <<problem, constraint, layer, caller, max_width, refine_layer,
                   refine_left, new_node, propagates, refines, began_at,
                   active_before, bitsets>>

NextOps ==
    \/ PropagateBegin
    \/ PopConstraint
    \/ ScanLayer
    \/ PropagateReturn
    \/ SplitNode
    \/ MergeNode
    \/ RemoveNode

SpecOps == InitRefine /\ [][NextOps]_vars

\* ================================================================ claims
\* Shorthands used by the properties below.
N == Len(problem.variables)

Constraints == problem.constraints

EdgeHandles == 0..(Len(mdd.edges) - 1)

NodeHandles == 0..(Len(mdd.nodes) - 1)

Active(e) == mdd.edges[e + 1].active

\* propagate_constraints has just returned (to the user or to refine)
PropagateReturned == pc \in {"returned", "refine_hash"}

\* Some edge is inactive although Mdd::new made it
SomeEdgeRemoved == \E e \in EdgeHandles : ~Active(e)

\* --- C1 ----------------------------------------------------------------
\* C1: when propagate_constraints returns, no active edge whose source
\* layer is in the scope of a constraint is invalid for that constraint,
\* judged against the constraint's properties as they stand at the return.
C1_NoInvalidEdgeAtReturn ==
    PropagateReturned =>
        \A e \in EdgeHandles : \A c \in 1..Len(Constraints) :
            (Active(e) /\ is_layer_in_scope(Constraints[c], mdd.edges[e + 1].layer_from))
                => is_assignment_invalid(Constraints[c], mdd, e) = "valid"

\* C1 witness: a return with edges removed and an in-scope edge surviving,
\* reached both from the user's call and from refine's call after a split
C1_Witness ==
    /\ pc = "refine_hash"
    /\ SomeEdgeRemoved
    /\ \E e \in EdgeHandles : \E c \in 1..Len(Constraints) :
          Active(e) /\ is_layer_in_scope(Constraints[c], mdd.edges[e + 1].layer_from)

\* --- C9 ----------------------------------------------------------------
\* The state Mdd::new leaves (no call made yet)
Fresh == pc = "idle" /\ propagates = 0 /\ refines = 0

\* The variable the ordering maps to layer l
VariableOfLayer(l) == CHOOSE v \in 0..(N - 1) : problem.variable_ordering[v + 1] = l

\* C9: Mdd::new yields n+1 layers of one active node each (handle = layer),
\* layer l decides the variable ordered at l, and the edges are exactly one
\* active edge node(l) -> node(l+1) per value of that variable's domain.
C9_MddNewShape ==
    Fresh =>
        /\ Len(mdd.layers) = N + 1
        /\ Len(mdd.nodes) = N + 1
        /\ \A l \in 0..N :
              /\ mdd.layers[l + 1].nodes = <<l>>
              /\ mdd.nodes[l + 1].active
              /\ mdd.nodes[l + 1].layer = l
              /\ mdd.nodes[l + 1].index_in_layer = 0
        /\ \A l \in 0..(N - 1) :
              LET v == VariableOfLayer(l)
                  domain == problem.variables[v + 1].domain
                  out == {e \in EdgeHandles : mdd.edges[e + 1].from = l}
              IN /\ mdd.layers[l + 1].decision = v
                 /\ Cardinality(out) = Len(domain)
                 /\ \A k \in 1..Len(domain) :
                       Cardinality({e \in out : mdd.edges[e + 1].assignment = domain[k]}) = 1
                 /\ \A e \in out : /\ mdd.edges[e + 1].to = l + 1
                                   /\ mdd.edges[e + 1].layer_from = l
                                   /\ Active(e)
                 /\ Range(mdd.nodes[l + 1].children_edges) = out
                 /\ Range(mdd.nodes[l + 2].parents_edges) = out
        /\ \A e \in EdgeHandles : mdd.edges[e + 1].from \in 0..(N - 1)

\* C9 witness: the MDD of the test mdd_creation under the reversed ordering
C9_Witness ==
    /\ Fresh
    /\ problem.variable_ordering = Reversed
    /\ Len(mdd.edges) = 7
    /\ Len(problem.variables[1].domain) = 3

\* ------------------------------------------------------------------- C2
\* The assignments of the problem: one value of its domain per variable
Assignments ==
    {a \in [0..(N - 1) -> Values] :
        \A v \in 0..(N - 1) : a[v] \in Range(problem.variables[v + 1].domain)}

\* a satisfies constraint c: the scope variables take pairwise different values
Satisfies(a, c) ==
    \A i, j \in 1..Len(c.variables) :
        c.variables[i] # c.variables[j] => a[c.variables[i]] # a[c.variables[j]]

Satisfying == {a \in Assignments : \A c \in 1..Len(Constraints) : Satisfies(a, Constraints[c])}

\* The nodes reached from the source by k active edges labelled as a says
RECURSIVE Reach(_, _)
Reach(a, k) ==
    IF k = 0 THEN {n \in NodeHandles : mdd.nodes[n + 1].layer = 0}
    ELSE LET above == Reach(a, k - 1)
         IN {mdd.edges[e + 1].to : e \in
                {e \in EdgeHandles :
                    /\ Active(e)
                    /\ mdd.edges[e + 1].from \in above
                    /\ mdd.nodes[mdd.edges[e + 1].from + 1].layer = k - 1
                    /\ mdd.edges[e + 1].assignment
                         = a[mdd.layers[k].decision]}}

\* a is a source-to-sink path of active edges
IsPath(a) == \E n \in Reach(a, N) : mdd.nodes[n + 1].layer = N

\* C2: propagation never deactivates an edge on the path of a satisfying
\* assignment: in every state of propagate_constraints on the MDD of
\* Mdd::new, and so when it returns, every assignment satisfying all the
\* constraints is a source-to-sink path of active edges.
C2_PropagationSound == \A a \in Satisfying : IsPath(a)

\* propagate_constraints returned having removed edges of a problem that
\* has satisfying assignments
C2_Witness ==
    /\ pc = "returned"
    /\ SomeEdgeRemoved
    /\ Cardinality(Satisfying) >= 2
    /\ Len(Constraints) >= 1

\* ------------------------------------------------------------------- C3
Propagating == pc \in {"loop", "scan"}

\* C3: propagate_constraints terminates for every problem: a call that has
\* begun and takes no further step has returned with the propagation queue
\* empty.
C3_EndsWithQueueEmpty ==
    (propagates > 0 /\ ~Propagating)
        => (pc = "returned" /\ mdd.propagation_queue = <<>>)

\* The entries of the children lists, the queued constraints and the layers
\* left to scan, in lexicographic order
RECURSIVE SumLen(_, _)
SumLen(nodes, k) ==
    IF k = 0 THEN 0 ELSE Len(nodes[k].children_edges) + SumLen(nodes, k - 1)

Measure ==
    SumLen(mdd.nodes, Len(mdd.nodes)) * ((Len(Constraints) + 2) * (N + 2))
    + Len(mdd.propagation_queue) * (N + 2)
    + (IF pc = "scan" THEN N - layer ELSE 0)

\* C3 (the loop itself): every step of the call that stays in the call
\* lowers the measure, so no run pops forever; a constraint is pushed
\* by a scan only when a children list lost an entry.
C3_StepsLowerMeasure ==
    [][(Propagating /\ Propagating') => (Measure' < Measure /\ Measure' >= 0)]_vars

\* ------------------------------------------------------------------- C7
\* The nodes reached from the source along parent lists
RECURSIVE ReachedFromSource(_)
ReachedFromSource(l) ==
    IF l = 0 THEN Range(mdd.layers[1].nodes)
    ELSE LET above == ReachedFromSource(l - 1)
         IN above \cup
            {n \in Range(mdd.layers[l + 1].nodes) :
                \E k \in 1..Len(mdd.nodes[n + 1].parents_edges) :
                    mdd.edges[mdd.nodes[n + 1].parents_edges[k] + 1].from \in above}

\* The nodes from which the sink is reached along child lists
RECURSIVE ReachingSink(_)
ReachingSink(l) ==
    IF l = N THEN Range(mdd.layers[N + 1].nodes)
    ELSE LET below == ReachingSink(l + 1)
         IN below \cup
            {n \in Range(mdd.layers[l + 1].nodes) :
                \E k \in 1..Len(mdd.nodes[n + 1].children_edges) :
                    mdd.edges[mdd.nodes[n + 1].children_edges[k] + 1].to \in below}

AllDifferents == {c \in 1..Len(Constraints) : Constraints[c].kind = "AllDifferent"}

TopDown(c, n) ==
    Constraints[c].top_down_properties[mdd.nodes[n + 1].layer + 1]
                                      [mdd.nodes[n + 1].index_in_layer + 1]

BottomUp(c, n) ==
    Constraints[c].bottom_up_properties[mdd.nodes[n + 1].layer + 1]
                                       [mdd.nodes[n + 1].index_in_layer + 1]

\* C7: when propagate_constraints returns, for every AllDifferent, every
\* node of every layer, with or without parents or children, has
\* A(n) \subseteq S(n) top-down and bottom-up.
C7_AllSubsetOfSome ==
    PropagateReturned =>
        \A c \in AllDifferents : \A n \in NodeHandles :
            /\ TopDown(c, n).value_all_path \subseteq TopDown(c, n).value_some_path
            /\ BottomUp(c, n).value_all_path \subseteq BottomUp(c, n).value_some_path

\* C7, amended: A(n) \subseteq S(n) top-down at the nodes reached from the
\* source and bottom-up at the nodes from which the sink is reached.
C7_AllSubsetOfSomeOnPaths ==
    PropagateReturned =>
        \A c \in AllDifferents : \A n \in NodeHandles :
            /\ n \in ReachedFromSource(N)
                 => TopDown(c, n).value_all_path \subseteq TopDown(c, n).value_some_path
            /\ n \in ReachingSink(0)
                 => BottomUp(c, n).value_all_path \subseteq BottomUp(c, n).value_some_path

\* ------------------------------------------------------------------ C10
DomainOf(v) == problem.variables[v + 1].domain

LayerOf(v) == problem.variable_ordering[v + 1]

\* The values carried by the surviving edges of a layer
SurvivingValues(l) ==
    {mdd.edges[e + 1].assignment :
        e \in {e \in EdgeHandles : Active(e) /\ mdd.edges[e + 1].layer_from = l}}

\* C10: when propagate_constraints returns on the MDD of Mdd::new, for every
\* AllDifferent and every scope variable x with a singleton domain {v}, no
\* surviving edge of the layer of another scope variable carries v.
C10_ForcedValuesRemoved ==
    pc = "returned" =>
        \A c \in AllDifferents :
            \A i, j \in 1..Len(Constraints[c].variables) :
                LET x == Constraints[c].variables[i]
                    y == Constraints[c].variables[j]
                IN (x # y /\ Len(DomainOf(x)) = 1)
                       => DomainOf(x)[1] \notin SurvivingValues(LayerOf(y))

\* x in {0} is forced, y kept a value and lost 0, under either ordering
C10_Witness ==
    /\ pc = "returned"
    /\ \E c \in AllDifferents :
        \E i, j \in 1..Len(Constraints[c].variables) :
            LET x == Constraints[c].variables[i]
                y == Constraints[c].variables[j]
            IN /\ x # y
               /\ DomainOf(x) = <<0>>
               /\ 0 \in Range(DomainOf(y))
               /\ SurvivingValues(LayerOf(y)) # {}
               /\ SurvivingValues(LayerOf(x)) = {0}
               /\ LayerOf(y) < LayerOf(x)

\* ------------------------------------------------------------------- C4
\* C4: propagate_constraints has no failure outcome: the cascading removal
\* of nodes and edges never reads a parent list or a child list out of
\* range, and a call that returns on a problem without satisfying
\* assignment leaves no source-to-sink path of active edges.
C4_RemovalCompletes ==
    /\ ~mdd.panicked
    /\ (pc = "returned" /\ Satisfying = {}) => \A a \in Assignments : ~IsPath(a)

\* ------------------------------------------------------------------- C5
\* C5: a call of propagate_constraints that follows a call that returned
\* deactivates no edge: in every state of the second call, and when it
\* returns, the active edges are those the first call left.
C5_SecondRunRemovesNothing ==
    began_at = "returned" => ActiveEdges(mdd) = active_before

\* ------------------------------------------------------------------- C6
\* C6: after any sequence of Mdd::new, propagate_constraints and refine,
\* every active edge goes from a node of a layer to a node of the next layer.
C6_ActiveEdgesAdjacent ==
    AtRest =>
        \A e \in EdgeHandles :
            Active(e) =>
                mdd.nodes[mdd.edges[e + 1].to + 1].layer
                    = mdd.nodes[mdd.edges[e + 1].from + 1].layer + 1

\* ------------------------------------------------------------------- C8
\* C8: when refine(problem, w) returns, for every w >= 1, every assignment
\* that satisfies all the constraints is a source-to-sink path of active
\* edges.
C8_RefineSound ==
    pc = "refined" => \A a \in Satisfying : IsPath(a)

\* ----------------------------------------------------------- C7, witness
\* propagate_constraints removed edges and returned; a node below the
\* source holds a forced value top-down and a node above the sink holds
\* one bottom-up
C7_Witness ==
    /\ pc = "returned"
    /\ SomeEdgeRemoved
    /\ \E c \in AllDifferents :
         /\ \E n \in ReachedFromSource(N) :
               mdd.nodes[n + 1].layer > 0 /\ TopDown(c, n).value_all_path # {}
         /\ \E n \in ReachingSink(0) :
               mdd.nodes[n + 1].layer < N /\ BottomUp(c, n).value_all_path # {}

\* ------------------------------------------------------------------ C11
\* The scope variables of constraint c ordered strictly above / below x
ScopeOf(c) == Range(Constraints[c].variables)

Above(c, x) == {y \in ScopeOf(c) : LayerOf(y) < LayerOf(x)}

Below(c, x) == {y \in ScopeOf(c) : LayerOf(y) > LayerOf(x)}

\* Union of the domains of a set of variables
DomainsOf(S) == UNION {Range(DomainOf(y)) : y \in S}

\* The values carried by the surviving edges of the layers of a set of variables
SurvivingOf(S) == UNION {SurvivingValues(LayerOf(y)) : y \in S}

\* Every layer above the sink kept an edge
NoLayerEmpty == \A l \in 0..(N - 1) : SurvivingValues(l) # {}

C12_HallSetBelow ==
    pc = "returned" =>
        \A c \in AllDifferents : \A x \in ScopeOf(c) :
            LET D == DomainsOf(Below(c, x)) IN
            (Below(c, x) # {} /\ Cardinality(D) = Cardinality(Below(c, x)))
                => SurvivingValues(LayerOf(x)) \cap D = {}

\* The test test_basic_hall_set_down generalised: two variables below x
\* share a domain of two values, x lost them and kept another value
C12_Witness ==
    /\ pc = "returned"
    /\ \E c \in AllDifferents : \E x \in ScopeOf(c) :
          LET D == DomainsOf(Below(c, x)) IN
          /\ Cardinality(Below(c, x)) = 2
          /\ Cardinality(D) = 2
          /\ \A y \in Below(c, x) : Range(DomainOf(y)) = D
          /\ D \subseteq Range(DomainOf(x))
          /\ SurvivingValues(LayerOf(x)) # {}
          /\ SurvivingOf(Below(c, x)) = D

\* ------------------------------------------------------------------ C13
\* The scope variables of c other than x
Others(c, x) == ScopeOf(c) \ {x}

\* x has scope variables on both sides and the k-1 others have domains whose
\* union has exactly k-1 values
Straddled(c, x) ==
    /\ Above(c, x) # {}
    /\ Below(c, x) # {}
    /\ Cardinality(DomainsOf(Others(c, x))) = Cardinality(Others(c, x))

ActiveOfLayer(l) == {e \in EdgeHandles : Active(e) /\ mdd.edges[e + 1].layer_from = l}

\* The solution of the grid of the test, row by row
SudokuSolution == <<0, 3, 2, 1,  2, 1, 3, 0,  3, 0, 1, 2,  1, 2, 0, 3>>

\* C14: on the 4 x 4 sudoku of the test (twelve all_different, five clues
\* set afterwards, natural ordering), propagate_constraints returns, and
\* when it has returned every layer keeps exactly one active edge, so the
\* MDD has exactly one source-to-sink path.
C14_SudokuOnePath ==
    /\ pc # "aborted"
    /\ pc = "returned" =>
          \A l \in 0..(N - 1) :
              /\ Cardinality(ActiveOfLayer(l)) = 1
              /\ \A e \in ActiveOfLayer(l) :
                    /\ mdd.edges[e + 1].from = l
                    /\ mdd.edges[e + 1].to = l + 1

\* The call returned on the sudoku and left the path of a full grid
C14_Witness ==
    /\ pc = "returned"
    /\ N = SudokuSide * SudokuSide
    /\ Len(Constraints) = Len(SudokuScopes)
    /\ \A l \in 0..(N - 1) : SurvivingValues(l) = {SudokuSolution[l + 1]}

\* ------------------------------------------------------------------ C15
\* C15: refine(problem, max_width), max_width >= 1, on an MDD built by
\* Mdd::new: the first and the last layer keep their single node in every
\* state, and when the first call of refine has returned every layer holds
\* at most max_width nodes, inactive and merged ones counted.
C15_WidthCap ==
    /\ Layer_number_nodes(mdd, 0) = 1
    /\ Layer_number_nodes(mdd, N) = 1
    /\ (pc = "refined" /\ refines = 1) =>
          \A l \in 0..N : Layer_number_nodes(mdd, l) <= max_width

\* refine returned having split a layer up to the cap, more than once
C15_Witness ==
    /\ pc = "refined"
    /\ max_width > 2
    /\ \E l \in 1..(N - 1) : Layer_number_nodes(mdd, l) = max_width

\* ------------------------------------------------------------------ C16
\* C16: refine(problem, 1) is a no-op: from its call to its return no step
\* changes the Mdd (nodes, edges, active flags, digest cache) or the
\* problem (the per-node state of the constraints), and no step enters
\* propagate_constraints.
C16_RefineOneIsNoOp ==
    [][(began_at' = "refine" /\ max_width' = 1)
          => /\ mdd' = mdd
             /\ problem' = problem
             /\ pc' \in {"refine_layer", "refine_split", "refined"}]_vars

\* refine(problem, 1) returned on an MDD in which a node could be split
C16_Witness ==
    /\ pc = "refined"
    /\ max_width = 1
    /\ Len(Constraints) >= 1
    /\ \E l \in 1..(N - 1) : node_to_split(mdd, l) # -1

\* ------------------------------------------------------------------ C17
\* The elements of a dense bitset: the positions of the bits that are set
BitsetElements(b) ==
    UNION {{(w - 1) * WordBits + shift : shift \in b.words[w]} : w \in 1..Len(b.words)}

\* C17: a.size_union(b) returns the number of elements of the union of a
\* and b, for every pair of bitsets, and leaves both operands as they were.
C17_SizeUnionCountsUnion ==
    bitsets.last.op = "size_union" =>
        /\ ~bitsets.last.panicked
        /\ bitsets.last.value
              = Cardinality(BitsetElements(bitsets.a) \cup BitsetElements(bitsets.b))
        /\ <<bitsets.a, bitsets.b>> = bitsets.before

\* C17 for operands of the same number of words (the pairs the propagators
\* form: sparse bitsets keyed by the same domain union)
C17_SizeUnionSameWidth ==
    (bitsets.last.op = "size_union" /\ Len(bitsets.a.words) = Len(bitsets.b.words)) =>
        /\ ~bitsets.last.panicked
        /\ bitsets.last.value
              = Cardinality(BitsetElements(bitsets.a) \cup BitsetElements(bitsets.b))
        /\ <<bitsets.a, bitsets.b>> = bitsets.before

\* ------------------------------------------------------------------ C18
\* C18: on a bitset made by Bitset::new(n), n >= 1, insert(i), contains(i)
\* and remove(i) succeed for every i < n.
C18_InRangeCallsSucceed ==
    (/\ bitsets.last.op \in {"insert", "contains", "remove"}
     /\ bitsets.last.element < BitsetN(bitsets.last.on))
        => ~bitsets.last.panicked

\* C18 for the sizes that are at most one word or a whole number of words
C18_InRangeCallsSucceedWholeWords ==
    (/\ bitsets.last.op \in {"insert", "contains", "remove"}
     /\ bitsets.last.element < BitsetN(bitsets.last.on)
     /\ \/ BitsetN(bitsets.last.on) <= WordBits
        \/ BitsetN(bitsets.last.on) % WordBits = 0)
        => ~bitsets.last.panicked

\* ------------------------------------------------------------------ C19
\* C19: every constraint of the problem is registered, by its index, in the
\* constraint list of every variable of its scope.
C19_AddConstraintRegisters ==
    \A c \in 1..Len(Constraints) :
        \A v \in ScopeOf(c) : (c - 1) \in Range(problem.variables[v + 1].constraints)

\* The edges leaving the nodes of layer l
EdgesOfLayer(l) ==
    {e \in EdgeHandles : mdd.nodes[mdd.edges[e + 1].from + 1].layer = l}

\* C19, second half: when the scan of a layer removes one of its edges, every
\* constraint with the layer's variable in its scope is scheduled afterwards.
C19_RemovalReschedules ==
    [][(/\ pc = "scan"
        /\ pc' # "aborted"
        /\ \E e \in EdgesOfLayer(layer) : Active(e) /\ ~mdd'.edges[e + 1].active)
       => \A c \in 1..Len(Constraints) :
              mdd.layers[layer + 1].decision \in ScopeOf(c)
                  => (c - 1) \in mdd'.scheduled_constraint]_vars

\* ------------------------------------------------------------------ C20
\* A bijection from the n variables onto the layers [0, n)
IsPermutation(ordering, n) ==
    Len(ordering) = n /\ Range(ordering) = 0..(n - 1)

\* The problem holds an ordering that set_variable_ordering accepted
OrderingAccepted == pc \notin {"modelling", "aborted"}

\* An MDD was built by Mdd::new
MddBuilt == pc \notin {"modelling", "ordered", "aborted"}

\* C20: set_variable_ordering aborts on an ordering whose length is not the
\* number of variables or that is not a permutation of [0, n): an ordering
\* that was accepted, and from which the constraints took their layers and an
\* MDD may be built, is a permutation.
C20_BadOrderingRejected ==
    OrderingAccepted => IsPermutation(problem.variable_ordering, N)

\* C20 for orderings of the right length: the part that does not depend on
\* debug assertions being compiled in
C20_NonPermutationRejected ==
    (OrderingAccepted /\ Len(problem.variable_ordering) = N)
        => IsPermutation(problem.variable_ordering, N)

\* C20, last part: no MDD is built from an ordering that is not a permutation
C20_NoMddFromBadOrdering ==
    MddBuilt => IsPermutation(problem.variable_ordering, N)

\* A permutation is never rejected, by set_variable_ordering or by Mdd::new,
\* and gives an MDD in which every variable decides the layer the ordering
\* gives it
C20_PermutationAccepted ==
    /\ pc = "aborted" => ~IsPermutation(problem.variable_ordering, N)
    /\ (MddBuilt /\ IsPermutation(problem.variable_ordering, N)) =>
          \A v \in 0..(N - 1) :
              mdd.layers[problem.variable_ordering[v + 1] + 1].decision = v

\* ------------------------------------------------------------------ C21
\* The decision variable of the layer the edge e leaves
DecisionOfEdge(e) ==
    mdd.layers[mdd.nodes[mdd.edges[e + 1].from + 1].layer + 1].decision

\* The edges deactivated since the constraint was popped, seen from the
\* state a step leads to
RemovedInPass == {e \in history.pass_active : ~mdd'.edges[e + 1].active}

\* A step that ends the pass of the popped constraint: the last layer was
\* scanned and the loop is back at the queue
PassEnds == pc = "scan" /\ pc' = "loop"

\* C21: when the pass of a popped constraint ends, every constraint with
\* the decision variable of an edge deactivated during the pass in its scope
\* is in the propagation queue.
C21_RemovalRequeues ==
    [][PassEnds =>
          \A e \in RemovedInPass :
              \A c \in 1..Len(Constraints) :
                  DecisionOfEdge(e) \in ScopeOf(c)
                      => (c - 1) \in Range(mdd'.propagation_queue)]_vars

\* C21 for problems whose constraints are all registered with their scope
\* variables (the defect of add_constraint set aside)
C21_RemovalRequeuesRegistered ==
    [][(PassEnds /\ C19_AddConstraintRegisters) =>
          \A e \in RemovedInPass :
              \A c \in 1..Len(Constraints) :
                  DecisionOfEdge(e) \in ScopeOf(c)
                      => (c - 1) \in Range(mdd'.propagation_queue)]_vars

\* C21 for the edges the feasibility test removes: the edges of a layer in
\* the scope of the popped constraint, in problems with registered constraints
C21_TestedLayerRequeues ==
    [][(PassEnds /\ C19_AddConstraintRegisters) =>
          \A e \in RemovedInPass :
              (\E l \in 0..(N - 1) :
                  /\ is_layer_in_scope(Constraints[constraint + 1], l)
                  /\ mdd.nodes[mdd.edges[e + 1].from + 1].layer = l
                  /\ \A f \in RemovedInPass :
                        mdd.nodes[mdd.edges[f + 1].from + 1].layer = l)
              => \A c \in 1..Len(Constraints) :
                    DecisionOfEdge(e) \in ScopeOf(c)
                        => (c - 1) \in Range(mdd'.propagation_queue)]_vars

\* ------------------------------------------------------------------ C22
\* The edge is in the child list of its source node
InChildList(e) ==
    e \in Range(mdd.nodes[mdd.edges[e + 1].from + 1].children_edges)

\* The edge is in the parent list of its target node
InParentList(e) ==
    e \in Range(mdd.nodes[mdd.edges[e + 1].to + 1].parents_edges)

\* The nodes whose parent list holds the edge
ListedUnder(e) ==
    {n \in NodeHandles : e \in Range(mdd.nodes[n + 1].parents_edges)}

\* C22: after any sequence of Mdd::new, propagate_constraints, split_node,
\* merge_node and refine, an edge is in its source's child list and in its
\* target's parent list if and only if it is active, and no edge is listed
\* under two different target nodes.
C22_ListsMirrorActive ==
    AtRest =>
        \A e \in EdgeHandles :
            /\ Active(e) <=> InChildList(e)
            /\ Active(e) <=> InParentList(e)
            /\ Cardinality(ListedUnder(e)) <= 1

\* C22 while a refine is between two of its steps: after split_node and the
\* propagation that follows it, before the digest lookup (so before any
\* merge_node of this refine)
C22_ListsMirrorActiveAfterSplit ==
    (pc = "refine_hash" /\ mdd.cache = <<>>) =>
        \A e \in EdgeHandles :
            /\ Active(e) <=> InChildList(e)
            /\ Active(e) <=> InParentList(e)
            /\ Cardinality(ListedUnder(e)) <= 1

\* ------------------------------------------------------------------ C23
\* The last thing that happened is the direct call of op: it returned or
\* panicked, and propagate_constraints has not been called since
JustCalled(op) ==
    /\ history.op = op
    /\ history.at = propagates
    /\ pc \in {"idle", "returned", "aborted"}

\* The edges in the lists of node n of the Mdd m
IncidentEdges(m, n) ==
    Range(m.nodes[n + 1].parents_edges) \cup Range(m.nodes[n + 1].children_edges)

\* The edge is in no list of its two endpoints
Unlisted(e) == ~InChildList(e) /\ ~InParentList(e)

\* C23: remove_node(n) on a node with any number of parent and child edges
\* completes and leaves n inactive with empty parent and child lists, and
\* every edge that was incident to n inactive and absent from the list of
\* its other endpoint.
C23_RemoveNodeCompletes ==
    JustCalled("remove_node") =>
        /\ pc # "aborted"
        /\ ~mdd.nodes[history.node + 1].active
        /\ IncidentEdges(mdd, history.node) = {}
        /\ \A e \in IncidentEdges(history.before, history.node) :
               ~Active(e) /\ Unlisted(e)

\* C23 on an Mdd none of whose nodes has more than one parent edge or more
\* than one child edge (the cascade then meets no list of two edges)
C23_RemoveNodeCompletesNarrow ==
    (/\ JustCalled("remove_node")
     /\ \A n \in 0..(Len(history.before.nodes) - 1) :
            /\ number_parents(history.before, n) <= 1
            /\ number_children(history.before, n) <= 1) =>
        /\ pc # "aborted"
        /\ ~mdd.nodes[history.node + 1].active
        /\ IncidentEdges(mdd, history.node) = {}
        /\ \A e \in IncidentEdges(history.before, history.node) :
               ~Active(e) /\ Unlisted(e)

\* remove_node returned for a node with one parent edge and one child edge
C23_NarrowWitness ==
    /\ JustCalled("remove_node")
    /\ pc # "aborted"
    /\ number_parents(history.before, history.node) = 1
    /\ number_children(history.before, history.node) = 1
    /\ \A n \in 0..(Len(history.before.nodes) - 1) :
           /\ number_parents(history.before, n) <= 1
           /\ number_children(history.before, n) <= 1

\* ------------------------------------------------------------------ C24
\* How many times each element occurs in a sequence (a multiset)
Tally(seq) ==
    [x \in Range(seq) |-> Cardinality({i \in 1..Len(seq) : seq[i] = x})]

\* (source node, value) of the edges of n's parent list, in list order
ParentPairs(m, n) ==
    [i \in 1..number_parents(m, n) |->
        LET e == m.nodes[n + 1].parents_edges[i]
        IN <<m.edges[e + 1].from, m.edges[e + 1].assignment>>]

\* (target node, value) of the edges of n's child list, in list order
ChildPairs(m, n) ==
    [i \in 1..number_children(m, n) |->
        LET e == m.nodes[n + 1].children_edges[i]
        IN <<m.edges[e + 1].to, m.edges[e + 1].assignment>>]

\* The active edges of the Mdd m that point to n
ActiveInto(m, n) == {e \in ActiveEdges(m) : m.edges[e + 1].to = n}

\* What split_node(n) promises for the Mdd `before` and the Mdd `after`
SplitAsSpecified(before, after, n, n2) ==
    LET p == number_parents(before, n)
        c == number_children(before, n)
    IN /\ Len(after.nodes) = Len(before.nodes) + 1
       /\ n2 = Len(before.nodes)
       /\ after.nodes[n2 + 1].layer = before.nodes[n + 1].layer
       /\ after.nodes[n2 + 1].active
       /\ number_parents(after, n2) = p \div 2
       /\ Range(after.nodes[n2 + 1].parents_edges) = ActiveInto(after, n2)
       /\ Cardinality(ActiveInto(after, n2)) = p \div 2
       /\ number_parents(after, n) = p - (p \div 2)
       /\ Range(after.nodes[n + 1].parents_edges) = ActiveInto(after, n)
       /\ Cardinality(ActiveInto(after, n)) = p - (p \div 2)
       /\ Tally(ParentPairs(after, n) \o ParentPairs(after, n2))
            = Tally(ParentPairs(before, n))
       /\ number_children(after, n2) = c
       /\ Tally(ChildPairs(after, n2)) = Tally(ChildPairs(before, n))
       /\ after.nodes[n + 1].children_edges = before.nodes[n + 1].children_edges
       /\ ChildPairs(after, n) = ChildPairs(before, n)

\* The active edges of the Mdd m that leave n
ActiveFrom(m, n) == {e \in ActiveEdges(m) : m.edges[e + 1].from = n}

\* How many edges of the set S have each (node at `end`, value) pair
PairTally(m, S, end) ==
    [x \in {<<m.edges[e + 1][end], m.edges[e + 1].assignment>> : e \in S} |->
        Cardinality({e \in S :
                        <<m.edges[e + 1][end], m.edges[e + 1].assignment>> = x})]

\* C24: split_node(n) on a node with p parent edges and c child edges
\* creates one new node n' in n's layer; afterwards n' has floor(p/2) active
\* parent edges and n has p - floor(p/2), the (source, value) pairs of the
\* parents of n and n' together are those of n's parents before, and n' has
\* c child edges with the (target, value) pairs of n's children, which n
\* keeps.  The edges of a node are its active edges.
C24_SplitPartitionsParents ==
    JustCalled("split_node") =>
        \E n \in {history.node}, before \in {history.before} :
            \E p \in {Cardinality(ActiveInto(before, n))},
               c \in {Cardinality(ActiveFrom(before, n))} :
                /\ pc # "aborted"
                /\ Len(mdd.nodes) = Len(before.nodes) + 1
                /\ new_node = Len(before.nodes)
                /\ mdd.nodes[new_node + 1].layer = before.nodes[n + 1].layer
                /\ Cardinality(ActiveInto(mdd, new_node)) = p \div 2
                /\ Cardinality(ActiveInto(mdd, n)) = p - (p \div 2)
                /\ PairTally(mdd, ActiveInto(mdd, n) \cup ActiveInto(mdd, new_node), "from")
                     = PairTally(before, ActiveInto(before, n), "from")
                /\ Cardinality(ActiveFrom(mdd, new_node)) = c
                /\ PairTally(mdd, ActiveFrom(mdd, new_node), "to")
                     = PairTally(before, ActiveFrom(before, n), "to")
                /\ ActiveFrom(mdd, n) = ActiveFrom(before, n)

\* The lists of the Mdd m hold active edges only
ListsHoldActiveOnly(m) ==
    \A n \in 0..(Len(m.nodes) - 1) : IncidentEdges(m, n) \subseteq ActiveEdges(m)

\* C24 for a split_node called on an Mdd whose lists hold active edges only:
\* the lists of n and n' are as stated, entry by entry
C24_SplitPartitionsParentsOnCleanLists ==
    (JustCalled("split_node") /\ ListsHoldActiveOnly(history.before)) =>
        /\ pc # "aborted"
        /\ SplitAsSpecified(history.before, mdd, history.node, new_node)

\* split_node returned for a node with three parent edges and two child edges
C24_Witness ==
    /\ JustCalled("split_node")
    /\ pc # "aborted"
    /\ number_parents(history.before, history.node) = 3
    /\ number_children(history.before, history.node) = 2
    /\ ListsHoldActiveOnly(history.before)

\* ------------------------------------------------------------------ C25
\* The value sequences read from node n down to the last layer, following
\* the child lists and their active edges
RECURSIVE SuffixesFrom(_, _)
SuffixesFrom(m, n) ==
    IF m.nodes[n + 1].layer = number_layers(m) - 1 THEN {<<>>}
    ELSE UNION {{<<m.edges[e + 1].assignment>> \o suffix :
                    suffix \in SuffixesFrom(m, m.edges[e + 1].to)} :
                e \in {e \in Range(m.nodes[n + 1].children_edges) :
                          m.edges[e + 1].active}}

\* The value sequences read from layer 0 down to node n, following the
\* parent lists and their active edges
RECURSIVE PrefixesTo(_, _)
PrefixesTo(m, n) ==
    IF m.nodes[n + 1].layer = 0 THEN {<<>>}
    ELSE UNION {{Append(prefix, m.edges[e + 1].assignment) :
                    prefix \in PrefixesTo(m, m.edges[e + 1].from)} :
                e \in {e \in Range(m.nodes[n + 1].parents_edges) :
                          m.edges[e + 1].active}}

\* The assignments the Mdd m encodes, read through the child lists
PathsDown(m) ==
    UNION {SuffixesFrom(m, n) : n \in Range(m.layers[1].nodes)}

\* The assignments the Mdd m encodes, read through the parent lists
PathsUp(m) ==
    UNION {PrefixesTo(m, n) : n \in Range(m.layers[number_layers(m)].nodes)}

\* C25: the set of value sequences read along the source-to-sink paths of
\* active edges is the same before and after split_node(n), whether the
\* paths are followed through the child lists or through the parent lists.
C25_SplitKeepsPaths ==
    (JustCalled("split_node") /\ pc # "aborted") =>
        /\ PathsDown(mdd) = PathsDown(history.before)
        /\ PathsUp(mdd) = PathsUp(history.before)

\* C25 for a split_node called on an Mdd whose lists hold active edges only
C25_SplitKeepsPathsOnCleanLists ==
    (/\ JustCalled("split_node")
     /\ pc # "aborted"
     /\ ListsHoldActiveOnly(history.before)) =>
        /\ PathsDown(mdd) = PathsDown(history.before)
        /\ PathsUp(mdd) = PathsUp(history.before)

\* split_node moved a parent edge on an Mdd that encodes several assignments
C25_Witness ==
    /\ JustCalled("split_node")
    /\ pc # "aborted"
    /\ number_parents(history.before, history.node) >= 2
    /\ Cardinality(PathsDown(history.before)) >= 2
    /\ mdd.nodes[history.node + 1].layer \in 1..(N - 1)
    /\ ListsHoldActiveOnly(history.before)

\* ------------------------------------------------------------------ C26
\* The active edges in the parent list of node n of the Mdd m
ActiveParents(m, n) == Range(m.nodes[n + 1].parents_edges) \cap ActiveEdges(m)

\* What merge_node(a, b) promises for the Mdd `before` and the current Mdd
MergeAsSpecified(before, a, b) ==
    /\ \A e \in ActiveParents(before, a) :
           /\ Active(e)
           /\ mdd.edges[e + 1].to = b
           /\ e \in Range(mdd.nodes[b + 1].parents_edges)
           /\ InChildList(e)
    /\ ~mdd.nodes[a + 1].active
    /\ \A e \in Range(before.nodes[a + 1].children_edges) : ~Active(e)

\* C26: merge_node(a, b) completes for any number of parents and children
\* of a; afterwards every edge that was an active parent edge of a is still
\* active, points to b, is in b's parent list and in its source's child
\* list, a is inactive, and every child edge of a is inactive.
C26_MergeMovesParents ==
    JustCalled("merge_node") =>
        /\ pc # "aborted"
        /\ MergeAsSpecified(history.before, history.node, history.into)

\* C26 for a node a without child edges
C26_MergeMovesParentsOfChildless ==
    (/\ JustCalled("merge_node")
     /\ number_children(history.before, history.node) = 0) =>
        /\ pc # "aborted"
        /\ MergeAsSpecified(history.before, history.node, history.into)

\* merge_node returned for a node a with a parent edge and no child edge
C26_ChildlessWitness ==
    /\ JustCalled("merge_node")
    /\ pc # "aborted"
    /\ number_children(history.before, history.node) = 0
    /\ ActiveParents(history.before, history.node) # {}

\* ------------------------------------------------------------------ C27
\* The node the digest lookup of refine returns for the new node, or -1
CacheHit == cache_get(mdd, hash_node(mdd, problem, new_node))

\* refine is about to merge the new node into the node the lookup returned
AboutToMerge == pc = "refine_hash" /\ CacheHit # -1

\* C27: during refine the new node is merged only into a node cached for
\* its own layer, and the node merged into is active.
C27_MergeWithinLayer ==
    AboutToMerge =>
        /\ mdd.nodes[CacheHit + 1].layer = mdd.nodes[new_node + 1].layer
        /\ mdd.nodes[CacheHit + 1].active

\* C27, second half alone: the node merged into is active
C27_MergedIntoIsActive ==
    AboutToMerge => mdd.nodes[CacheHit + 1].active

\* C27 while refine is at its first layer (every cached node is of layer 1)
C27_MergeWithinFirstLayer ==
    (AboutToMerge /\ refine_layer = 1) =>
        /\ mdd.nodes[CacheHit + 1].layer = mdd.nodes[new_node + 1].layer
        /\ mdd.nodes[CacheHit + 1].active

\* ------------------------------------------------------------------ C28
\* The next step scans a layer of the scope of the popped constraint
Scanning ==
    pc = "scan" /\ is_layer_in_scope(Constraints[constraint + 1], layer)

\* The log of that scan
ScanLog == scan_layer(mdd, Constraints[constraint + 1], layer)

\* How many times the scan of node handed edge e to is_assignment_invalid
TimesTested(log, node, e) ==
    Cardinality({i \in 1..Len(log.tested) :
                    log.tested[i] = [node |-> node, edge |-> e]})

\* C28: in a scheduler pass, for each node of an in-scope layer, every child
\* edge that was in the node's child list when the scan of that node began
\* is tested by is_assignment_invalid exactly once unless it was deactivated
\* before its turn, and the scan never reads an index beyond the current
\* length of the list, even when a removal cascades.
C28_ScanUnderDeletion ==
    Scanning =>
        \A log \in {ScanLog} :
            /\ ~log.overrun
            /\ \A i \in 1..Len(log.tested) :
                   \E k \in 1..Len(log.began) :
                       /\ log.began[k].node = log.tested[i].node
                       /\ log.tested[i].edge \in Range(log.began[k].children)
            /\ \A k \in 1..Len(log.began) :
                   \A e \in Range(log.began[k].children) :
                       /\ TimesTested(log, log.began[k].node, e) <= 1
                       /\ k <= Len(log.ended) =>
                              \/ TimesTested(log, log.began[k].node, e) = 1
                              \/ e \notin log.ended[k]

\* A scan that removed an edge of a node and went on to test the edges of
\* that node at lower indices, to the end of the node's list
C28_Witness ==
    /\ Scanning
    /\ \E log \in {ScanLog} :
           \E k \in 1..Len(log.ended) :
               /\ Len(log.began[k].children) >= 3
               /\ \E e \in Range(log.began[k].children) :
                      /\ e \notin log.ended[k]
                      /\ e # log.began[k].children[1]
               /\ \A e \in Range(log.began[k].children) :
                      TimesTested(log, log.began[k].node, e) = 1

\* ------------------------------------------------------------------ C29
\* update_property_top_down and update_property_bottom_up of the AllDifferent
\* c have just run on the current Mdd (the constraint was popped, no layer
\* scanned yet)
JustUpdated(c) ==
    /\ pc = "scan"
    /\ layer = 0
    /\ constraint = c - 1
    /\ c \in AllDifferents

\* The value the edge contributes to the sets of c: its assignment when it
\* leaves a layer of the scope of c
Contribution(c, e) ==
    IF is_layer_in_scope(Constraints[c], mdd.edges[e + 1].layer_from)
    THEN {mdd.edges[e + 1].assignment} ELSE {}

\* One set per path of active edges from layer 0 to node n: the values the
\* edges of the path contribute
RECURSIVE ValueSetsTo(_, _)
ValueSetsTo(c, n) ==
    IF mdd.nodes[n + 1].layer = 0 THEN {{}}
    ELSE UNION {{above \cup Contribution(c, e) :
                    above \in ValueSetsTo(c, mdd.edges[e + 1].from)} :
                e \in {e \in EdgeHandles : Active(e) /\ mdd.edges[e + 1].to = n}}

\* The values of the scope of c (the keys of its SparseBitsets)
Keys(c) == Constraints[c].domain

\* Values on some path / on every path (every value, when there is no path)
OnSome(sets) == UNION sets

OnEvery(c, sets) == {v \in Keys(c) : \A set \in sets : v \in set}

\* Every way up from n along active edges ends in layer 0
RECURSIVE Rooted(_)
Rooted(n) ==
    \/ mdd.nodes[n + 1].layer = 0
    \/ /\ \E e \in EdgeHandles : Active(e) /\ mdd.edges[e + 1].to = n
       /\ \A e \in EdgeHandles :
              (Active(e) /\ mdd.edges[e + 1].to = n) => Rooted(mdd.edges[e + 1].from)

\* The nodes of layers 1..n with at least one parent edge
WithParents == {t \in NodeHandles : mdd.nodes[t + 1].layer >= 1 /\ number_parents(mdd, t) >= 1}

OnlySplits == history.ops \subseteq {"split_node"}

\* One set per path of active edges from node n to the last layer: the
\* values the edges of the path contribute
RECURSIVE ValueSetsFrom(_, _)
ValueSetsFrom(c, n) ==
    IF mdd.nodes[n + 1].layer = N THEN {{}}
    ELSE UNION {{below \cup Contribution(c, e) :
                    below \in ValueSetsFrom(c, mdd.edges[e + 1].to)} :
                e \in {e \in EdgeHandles : Active(e) /\ mdd.edges[e + 1].from = n}}

\* Every way down from n along active edges ends in the last layer
RECURSIVE Grounded(_)
Grounded(n) ==
    \/ mdd.nodes[n + 1].layer = N
    \/ /\ \E e \in EdgeHandles : Active(e) /\ mdd.edges[e + 1].from = n
       /\ \A e \in EdgeHandles :
              (Active(e) /\ mdd.edges[e + 1].from = n) => Grounded(mdd.edges[e + 1].to)

\* The nodes of layers 0..n-1 with at least one active child edge
WithActiveChildren ==
    {n \in NodeHandles :
        /\ mdd.nodes[n + 1].layer < N
        /\ \E e \in EdgeHandles : Active(e) /\ mdd.edges[e + 1].from = n}

\* C30: after update_property_bottom_up on an Mdd reachable by Mdd::new,
\* propagate_constraints and split_node, for every node s of layers 0..n-1
\* with at least one active child edge, S_bu(s) (resp. A_bu(s)) is the set
\* of values carried by an in-scope-layer edge on some (resp. every)
\* s-to-sink path made of active edges.
C30_BottomUpMatchesPaths ==
    \A c \in AllDifferents :
        (JustUpdated(c) /\ OnlySplits) =>
            \A n \in WithActiveChildren :
                /\ BottomUp(c, n).value_some_path = OnSome(ValueSetsFrom(c, n))
                /\ BottomUp(c, n).value_all_path \cap Keys(c)
                       = OnEvery(c, ValueSetsFrom(c, n))

\* C30 at the nodes every way down from which ends at the sink
C30_BottomUpMatchesPathsAboveSink ==
    \A c \in AllDifferents :
        (JustUpdated(c) /\ OnlySplits) =>
            \A n \in WithActiveChildren :
                Grounded(n) =>
                    /\ BottomUp(c, n).value_some_path = OnSome(ValueSetsFrom(c, n))
                    /\ BottomUp(c, n).value_all_path \cap Keys(c)
                           = OnEvery(c, ValueSetsFrom(c, n))

\* C30 at those nodes, on an Mdd no split_node has been called on
C30_BottomUpMatchesPathsBeforeSplit ==
    \A c \in AllDifferents :
        (JustUpdated(c) /\ history.ops = {}) =>
            \A n \in WithActiveChildren :
                Grounded(n) =>
                    /\ BottomUp(c, n).value_some_path = OnSome(ValueSetsFrom(c, n))
                    /\ BottomUp(c, n).value_all_path \cap Keys(c)
                           = OnEvery(c, ValueSetsFrom(c, n))

\* ------------------------------------------------------------------ C31
\* The Mdd on which update_property_top_down stops right after the first j
\* parent edges of node i of layer l: the later nodes of the layer and the
\* layers below it are not visited, the later parent edges not folded
FoldedTo(m, l, i, j) ==
    [m EXCEPT
       !.layers = [k \in 1..Len(@) |->
                     IF k - 1 > l THEN [@[k] EXCEPT !.nodes = <<>>]
                     ELSE IF k - 1 = l THEN [@[k] EXCEPT !.nodes = SubSeq(@, 1, i + 1)]
                     ELSE @[k]],
       !.nodes[node_at(m, l, i) + 1].parents_edges = SubSeq(@, 1, j)]

\* The same for update_property_bottom_up: it stops right after the first j
\* child edges of node i of layer l
FoldedFrom(m, l, i, j) ==
    [m EXCEPT
       !.layers = [k \in 1..Len(@) |->
                     IF k - 1 < l THEN [@[k] EXCEPT !.nodes = <<>>]
                     ELSE IF k - 1 = l THEN [@[k] EXCEPT !.nodes = SubSeq(@, 1, i + 1)]
                     ELSE @[k]],
       !.nodes[node_at(m, l, i) + 1].children_edges = SubSeq(@, 1, j)]

\* The steps of the loops: layer l, node index i, edge index j
FoldSteps(m, lo, hi, up) ==
    UNION {UNION {{<<l, i, j>> :
                      j \in 0..((IF up THEN number_parents(m, node_at(m, l, i))
                                 ELSE number_children(m, node_at(m, l, i))) - 1)} :
                  i \in 0..(Layer_number_nodes(m, l) - 1)} :
           l \in lo..hi}

TopDownSteps(m) == FoldSteps(m, 1, number_layers(m) - 1, TRUE)

BottomUpSteps(m) == FoldSteps(m, 0, number_layers(m) - 2, FALSE)

\* The property of a node in a vector of properties
PropertyOf(properties, m, n) ==
    properties[m.nodes[n + 1].layer + 1][m.nodes[n + 1].index_in_layer + 1]

\* propagate_constraints is about to pop the AllDifferent c and to recompute
\* its properties
UpdateDue(c) ==
    /\ pc = "loop"
    /\ mdd.propagation_queue # <<>>
    /\ mdd.propagation_queue[Len(mdd.propagation_queue)] = c - 1
    /\ c \in AllDifferents

\* The parent (child) node of the edge step <<l, i, j>> processes
ParentAt(m, step) ==
    m.edges[m.nodes[node_at(m, step[1], step[2]) + 1].parents_edges[step[3] + 1] + 1].from

ChildAt(m, step) ==
    m.edges[m.nodes[node_at(m, step[1], step[2]) + 1].children_edges[step[3] + 1] + 1].to

\* The constraint right before and right after a step of update_property_top_down
TopDownBefore(c, step) ==
    AllDifferent_update_property_top_down(Constraints[c],
                                          FoldedTo(mdd, step[1], step[2], step[3]))

TopDownAfter(c, step) ==
    AllDifferent_update_property_top_down(Constraints[c],
                                          FoldedTo(mdd, step[1], step[2], step[3] + 1))

\* The same for update_property_bottom_up, which starts from the result of
\* update_property_top_down
BottomUpBefore(c, step) ==
    AllDifferent_update_property_bottom_up(
        AllDifferent_update_property_top_down(Constraints[c], mdd),
        FoldedFrom(mdd, step[1], step[2], step[3]))

BottomUpAfter(c, step) ==
    AllDifferent_update_property_bottom_up(
        AllDifferent_update_property_top_down(Constraints[c], mdd),
        FoldedFrom(mdd, step[1], step[2], step[3] + 1))

\* The nodes of the first and of the last layer
SourceNodes == {n \in NodeHandles : mdd.nodes[n + 1].layer = 0}

SinkNodes == {n \in NodeHandles : mdd.nodes[n + 1].layer = number_layers(mdd) - 1}

\* C31: while update_property_top_down runs, the A and S sets of the parent
\* node of an incoming edge are after the edge was processed what they were
\* before it was processed; the same for the child node of an outgoing edge
\* in update_property_bottom_up; the top-down sets of the source and the
\* bottom-up sets of the sink are empty at all times.
C31_FoldRolledBack ==
    /\ \A c \in AllDifferents :
           UpdateDue(c) =>
               /\ \A step \in TopDownSteps(mdd) :
                      PropertyOf(TopDownAfter(c, step).top_down_properties,
                                 mdd, ParentAt(mdd, step))
                        = PropertyOf(TopDownBefore(c, step).top_down_properties,
                                     mdd, ParentAt(mdd, step))
               /\ \A step \in BottomUpSteps(mdd) :
                      PropertyOf(BottomUpAfter(c, step).bottom_up_properties,
                                 mdd, ChildAt(mdd, step))
                        = PropertyOf(BottomUpBefore(c, step).bottom_up_properties,
                                     mdd, ChildAt(mdd, step))
    /\ \A c \in AllDifferents :
           /\ \A n \in SourceNodes :
                  TopDown(c, n) = [value_all_path |-> {}, value_some_path |-> {}]
           /\ \A n \in SinkNodes :
                  BottomUp(c, n) = [value_all_path |-> {}, value_some_path |-> {}]

\* The value of the incoming edge step <<l, i, j>> processes
IncomingAt(m, step) ==
    m.edges[m.nodes[node_at(m, step[1], step[2]) + 1].parents_edges[step[3] + 1] + 1].assignment

\* An update is due in which one edge leaving a layer in scope brings a
\* value its parent's A set lacks into the S set of its target, and another
\* one a value its parent's A set holds already
C31_Witness ==
    \E c \in AllDifferents :
        /\ UpdateDue(c)
        /\ \E s1, s2 \in TopDownSteps(mdd) :
               /\ ~TopDownAfter(c, s1).panicked
               /\ ~TopDownAfter(c, s2).panicked
               /\ is_layer_in_scope(Constraints[c], s1[1] - 1)
               /\ is_layer_in_scope(Constraints[c], s2[1] - 1)
               /\ IncomingAt(mdd, s1)
                      \notin PropertyOf(TopDownBefore(c, s1).top_down_properties,
                                        mdd, ParentAt(mdd, s1)).value_all_path
               /\ IncomingAt(mdd, s1)
                      \notin TopDownBefore(c, s1).top_down_properties
                                 [s1[1] + 1][s1[2] + 1].value_some_path
               /\ IncomingAt(mdd, s1)
                      \in TopDownAfter(c, s1).top_down_properties
                                 [s1[1] + 1][s1[2] + 1].value_some_path
               /\ IncomingAt(mdd, s2)
                      \in PropertyOf(TopDownBefore(c, s2).top_down_properties,
                                     mdd, ParentAt(mdd, s2)).value_all_path

\* ------------------------------------------------------------------ C32
\* The AllDifferent c was popped and its layers are being scanned
ScanningFor(c) == pc = "scan" /\ constraint = c - 1 /\ c \in AllDifferents

\* The edges that leave a layer of the scope of c
EdgesInScope(c) ==
    {e \in EdgeHandles : is_layer_in_scope(Constraints[c], mdd.edges[e + 1].layer_from)}

\* (up, down) of the decision variable of the layer the edge leaves
HallSizes(c, e) ==
    Constraints[c].map_hall_set[mdd.layers[mdd.edges[e + 1].layer_from + 1].decision]

\* The five rules for the edge e = (p, v, q), on the sets as sets of values
RuleAllAbove(c, e) ==
    mdd.edges[e + 1].assignment \in TopDown(c, mdd.edges[e + 1].from).value_all_path

RuleAllBelow(c, e) ==
    mdd.edges[e + 1].assignment \in BottomUp(c, mdd.edges[e + 1].to).value_all_path

RuleHallAbove(c, e) ==
    /\ mdd.edges[e + 1].assignment \in TopDown(c, mdd.edges[e + 1].from).value_some_path
    /\ Cardinality(TopDown(c, mdd.edges[e + 1].from).value_some_path) = HallSizes(c, e)[1]

RuleHallBelow(c, e) ==
    /\ mdd.edges[e + 1].assignment \in BottomUp(c, mdd.edges[e + 1].to).value_some_path
    /\ Cardinality(BottomUp(c, mdd.edges[e + 1].to).value_some_path) = HallSizes(c, e)[2]

RuleHallAround(c, e) ==
    /\ mdd.edges[e + 1].assignment \in TopDown(c, mdd.edges[e + 1].from).value_some_path
    /\ mdd.edges[e + 1].assignment \in BottomUp(c, mdd.edges[e + 1].to).value_some_path
    /\ HallSizes(c, e)[1] + HallSizes(c, e)[2] =
           Cardinality(TopDown(c, mdd.edges[e + 1].from).value_some_path
                       \cup BottomUp(c, mdd.edges[e + 1].to).value_some_path)

SomeRule(c, e) ==
    \/ RuleAllAbove(c, e)
    \/ RuleAllBelow(c, e)
    \/ RuleHallAbove(c, e)
    \/ RuleHallBelow(c, e)
    \/ RuleHallAround(c, e)

\* C32: for an edge e = (p, v, q) that leaves a layer of the scope of an
\* AllDifferent, is_assignment_invalid returns true if one of the five rules
\* holds (v in A_td(p); v in A_bu(q); v in S_td(p) and |S_td(p)| = up;
\* v in S_bu(q) and |S_bu(q)| = down; v in both S sets and up + down = the
\* size of their union), and returns false otherwise.
C32_InvalidIffRule ==
    \A c \in AllDifferents :
        ScanningFor(c) =>
            \A e \in EdgesInScope(c) :
                AllDifferent_is_assignment_invalid(Constraints[c], mdd, e)
                    = IF SomeRule(c, e) THEN "invalid" ELSE "valid"

\* A scan in which one edge is refused by the fifth rule alone, one by the
\* first rule, and one is accepted
C32_Witness ==
    \E c \in AllDifferents :
        /\ ScanningFor(c)
        /\ \E e1, e2, e3 \in EdgesInScope(c) :
               /\ RuleHallAround(c, e1)
               /\ ~RuleAllAbove(c, e1) /\ ~RuleAllBelow(c, e1)
               /\ ~RuleHallAbove(c, e1) /\ ~RuleHallBelow(c, e1)
               /\ AllDifferent_is_assignment_invalid(Constraints[c], mdd, e1) = "invalid"
               /\ RuleAllAbove(c, e2)
               /\ AllDifferent_is_assignment_invalid(Constraints[c], mdd, e2) = "invalid"
               /\ ~SomeRule(c, e3)
               /\ AllDifferent_is_assignment_invalid(Constraints[c], mdd, e3) = "valid"

\* ------------------------------------------------------------------ C33
\* The scope variables of c whose layer in the ordering is smaller (larger)
\* than that of x
ScopeAbove(c, ordering, x) ==
    {u \in Range(Constraints[c].variables) : ordering[u + 1] < ordering[x + 1]}

ScopeBelow(c, ordering, x) ==
    {u \in Range(Constraints[c].variables) : ordering[u + 1] > ordering[x + 1]}

\* The variables of the scope of c are distinct
DistinctScope(c) ==
    Cardinality(Range(Constraints[c].variables)) = Len(Constraints[c].variables)

\* C33: after update_variable_ordering(order) with a permutation order, for
\* every scope variable x of an AllDifferent over k distinct variables up(x)
\* is the number of scope variables on a smaller layer and down(x) the
\* number on a larger layer; up(x) + down(x) = k - 1, and the up values of
\* the scope variables are 0 .. k-1 in the order of their layers.
C33_HallSizesCountScope ==
    \A c \in AllDifferents :
        (OrderingAccepted /\ IsPermutation(problem.variable_ordering, N) /\ DistinctScope(c)) =>
            LET ordering == problem.variable_ordering
                scope == Range(Constraints[c].variables)
                k == Len(Constraints[c].variables)
                sizes == Constraints[c].map_hall_set
            IN /\ scope \subseteq DOMAIN sizes
               /\ \A x \in scope :
                      /\ sizes[x][1] = Cardinality(ScopeAbove(c, ordering, x))
                      /\ sizes[x][2] = Cardinality(ScopeBelow(c, ordering, x))
                      /\ sizes[x][1] + sizes[x][2] = k - 1
               /\ {sizes[x][1] : x \in scope} = 0..(k - 1)
               /\ \A x, y \in scope :
                      ordering[x + 1] < ordering[y + 1] => sizes[x][1] < sizes[y][1]

\* A permutation was set after another ordering, and under it a variable of
\* a scope of three has one scope variable above it and one below it, and
\* another variable of the scope has none above it
C33_Witness ==
    \E c \in AllDifferents :
        /\ pc = "ordered"
        /\ history.calls >= 1
        /\ IsPermutation(problem.variable_ordering, N)
        /\ problem.variable_ordering # Natural
        /\ Len(Constraints[c].variables) = 3
        /\ \E x, y \in Range(Constraints[c].variables) :
               /\ Constraints[c].map_hall_set[x] = <<1, 1>>
               /\ Constraints[c].map_hall_set[y] = <<0, 2>>
               /\ y > x

\* ------------------------------------------------------------------ C34
\* The layers the ordering gives to the scope variables of c
LayersOfScope(c, ordering) ==
    {ordering[x + 1] : x \in Range(Constraints[c].variables)}

\* The layers an ordering can name in the problems explored
LayerNumbers == 0..(N + 1)

\* C34: after any sequence of set_variable_ordering calls, is_layer_in_scope(l)
\* of an AllDifferent is true if and only if the most recent ordering maps
\* some scope variable to layer l.
C34_ScopeRecomputed ==
    \A c \in AllDifferents :
        OrderingAccepted =>
            \A l \in LayerNumbers :
                is_layer_in_scope(Constraints[c], l)
                    <=> l \in LayersOfScope(c, problem.variable_ordering)

\* C34 when every ordering set so far was a permutation: violated as well
C34_ScopeRecomputedPermutations ==
    \A c \in AllDifferents :
        (OrderingAccepted /\ Range(problem.variable_ordering) \subseteq 0..(N - 1)
             /\ Constraints[c].layer_in_scope \subseteq 0..(N - 1)) =>
            \A l \in LayerNumbers :
                is_layer_in_scope(Constraints[c], l)
                    <=> l \in LayersOfScope(c, problem.variable_ordering)

\* C34 after the first call of set_variable_ordering: holds
C34_ScopeAfterFirstOrdering ==
    \A c \in AllDifferents :
        (OrderingAccepted /\ history.calls = 0) =>
            \A l \in LayerNumbers :
                is_layer_in_scope(Constraints[c], l)
                    <=> l \in LayersOfScope(c, problem.variable_ordering)

\* The layers of the most recent ordering are in scope at all times
C34_ScopeHoldsRecentLayers ==
    \A c \in AllDifferents :
        OrderingAccepted =>
            \A l \in LayersOfScope(c, problem.variable_ordering) :
                is_layer_in_scope(Constraints[c], l)

\* ------------------------------------------------------------------ C35
NotEqualses == {c \in 1..Len(Constraints) : Constraints[c].kind = "NotEquals"}

\* The properties of the NotEquals c have just been recomputed on the
\* current Mdd (the constraint was popped, no layer scanned yet)
JustUpdatedNotEquals(c) ==
    /\ pc = "scan"
    /\ layer = 0
    /\ constraint = c - 1
    /\ c \in NotEqualses

\* The nodes reached from n going down (up) along active edges, n included
RECURSIVE NodesBelow(_)
NodesBelow(n) ==
    {n} \cup UNION {NodesBelow(mdd.edges[e + 1].to) :
                       e \in {e \in EdgeHandles : Active(e) /\ mdd.edges[e + 1].from = n}}

RECURSIVE NodesAbove(_)
NodesAbove(n) ==
    {n} \cup UNION {NodesAbove(mdd.edges[e + 1].from) :
                       e \in {e \in EdgeHandles : Active(e) /\ mdd.edges[e + 1].to = n}}

\* The layer of the variable of c that the edge e does not decide
OtherLayer(c, e) ==
    IF mdd.edges[e + 1].layer_from = Constraints[c].layer_x
    THEN Constraints[c].layer_y ELSE Constraints[c].layer_x

\* The values the other variable takes on the paths of active edges through
\* the source node of e
OtherValues(c, e) ==
    LET p == mdd.edges[e + 1].from
        other == OtherLayer(c, e)
    IN {mdd.edges[f + 1].assignment :
           f \in {f \in EdgeHandles :
                     /\ Active(f)
                     /\ mdd.edges[f + 1].layer_from = other
                     /\ IF other > mdd.edges[e + 1].layer_from
                        THEN mdd.edges[f + 1].from \in NodesBelow(p)
                        ELSE mdd.edges[f + 1].to \in NodesAbove(p)}}

\* The values of the active edges that leave the source node of e
OwnValues(e) ==
    {mdd.edges[f + 1].assignment :
        f \in {f \in EdgeHandles : Active(f) /\ mdd.edges[f + 1].from = mdd.edges[e + 1].from}}

\* The active edges that leave a layer of one of the two variables of c
EdgesOfPair(c) ==
    {e \in EdgeHandles :
        Active(e) /\ is_layer_in_scope(Constraints[c], mdd.edges[e + 1].layer_from)}

\* C35: NotEquals(x, y) reports an edge that assigns v to one of its two
\* variables as invalid if and only if v is the only value the other
\* variable takes on the paths through the source node of the edge,
\* whichever of x and y is branched on first.
C35_InvalidIffOtherIsSingleton ==
    \A c \in NotEqualses :
        JustUpdatedNotEquals(c) =>
            \A e \in EdgesOfPair(c) :
                (NotEquals_is_assignment_invalid(Constraints[c], mdd, e) = "invalid")
                    <=> OtherValues(c, e) = {mdd.edges[e + 1].assignment}

\* C35 for the edges of the variable branched on second: holds
C35_InvalidIffOtherIsSingletonSecond ==
    \A c \in NotEqualses :
        JustUpdatedNotEquals(c) =>
            \A e \in EdgesOfPair(c) :
                OtherLayer(c, e) < mdd.edges[e + 1].layer_from =>
                    ((NotEquals_is_assignment_invalid(Constraints[c], mdd, e) = "invalid")
                        <=> OtherValues(c, e) = {mdd.edges[e + 1].assignment})

\* What the code does for the edges of the variable branched on first: the
\* set consulted holds the values of the source node's own edges as well
C35_FirstVariableCountsOwnValues ==
    \A c \in NotEqualses :
        JustUpdatedNotEquals(c) =>
            \A e \in EdgesOfPair(c) :
                OtherLayer(c, e) > mdd.edges[e + 1].layer_from =>
                    ((NotEquals_is_assignment_invalid(Constraints[c], mdd, e) = "invalid")
                        <=> OwnValues(e) \cup OtherValues(c, e) = {mdd.edges[e + 1].assignment})

\* C35 on an Mdd in which every variable has a value left: violated as well
\* (x in {0, 1} above y in {0}: the edge x = 0 is not reported)
C35_InvalidIffOtherIsSingletonNoEmptyLayer ==
    \A c \in NotEqualses :
        (JustUpdatedNotEquals(c) /\ NoLayerEmpty) =>
            \A e \in EdgesOfPair(c) :
                (NotEquals_is_assignment_invalid(Constraints[c], mdd, e) = "invalid")
                    <=> OtherValues(c, e) = {mdd.edges[e + 1].assignment}

\* ------------------------------------------------------------------ C36
\* The edges update_property_top_down reads: those of the parent lists
EdgesFolded ==
    {e \in EdgeHandles : \E n \in NodeHandles : e \in Range(mdd.nodes[n + 1].parents_edges)}

\* C36: during propagate_constraints an AllDifferent queries its sparse
\* bitsets only with values of the union U of its scope's domains, and no
\* query aborts on an unknown key, for every problem.
C36_QueriesWithinDomain ==
    \A c \in AllDifferents :
        /\ UpdateDue(c) =>
               \A e \in EdgesFolded : mdd.edges[e + 1].assignment \in Keys(c)
        /\ ~Constraints[c].panicked

\* C36 for the problems in which no variable has a value outside U: holds
C36_QueriesWithinDomainWhenCovered ==
    \A c \in AllDifferents :
        (DomainsOf(0..(N - 1)) \subseteq Keys(c)) =>
            /\ UpdateDue(c) =>
                   \A e \in EdgesFolded : mdd.edges[e + 1].assignment \in Keys(c)
            /\ ~Constraints[c].panicked

\* C36 for the edges that leave a layer of the scope, when no clue was set
\* after the constraint was created (the domains are those U was built from)
C36_ScopeEdgesWithinDomain ==
    \A c \in AllDifferents :
        (Keys(c) = DomainsOf(ScopeOf(c))) =>
            \A e \in EdgesInScope(c) : mdd.edges[e + 1].assignment \in Keys(c)

\* ------------------------------------------------------------------ C37
\* The constraints in the propagation queue
Queued == Range(mdd.propagation_queue)

\* C37: at every step of propagate_constraints a constraint index occurs at
\* most once in the propagation queue and its scheduled bit is set if and
\* only if it is in the queue; when propagate_constraints has returned, and
\* between calls, the queue is empty and no bit is set.
C37_QueueMatchesBits ==
    /\ Cardinality(Queued) = Len(mdd.propagation_queue)
    /\ mdd.scheduled_constraint = Queued
    /\ (AtRest \/ PropagateReturned) =>
           /\ mdd.propagation_queue = <<>>
           /\ mdd.scheduled_constraint = {}

\* The constraint popped removed an edge and is in the queue again, behind
\* another constraint of the same variable that was waiting there and was
\* not pushed a second time
C37_Witness ==
    /\ pc \in {"scan", "loop"}
    /\ Len(mdd.propagation_queue) = 2
    /\ constraint \in Queued
    /\ mdd.propagation_queue[1] # constraint
    /\ ActiveEdges(mdd) # history.pass_active

\* ------------------------------------------------------------------ C38
\* The active edges into and out of a node
ActiveEdgesInto(n) == {e \in EdgeHandles : Active(e) /\ mdd.edges[e + 1].to = n}

ActiveEdgesFrom(n) == {e \in EdgeHandles : Active(e) /\ mdd.edges[e + 1].from = n}

\* No active node or edge dangles
NoDangling ==
    /\ \A n \in ActiveNodes :
           /\ n \notin SourceNodes => ActiveEdgesInto(n) # {}
           /\ n \notin SinkNodes => ActiveEdgesFrom(n) # {}
    /\ \A e \in EdgeHandles :
           Active(e) =>
               /\ mdd.edges[e + 1].from \in ActiveNodes
               /\ mdd.edges[e + 1].to \in ActiveNodes
               /\ NodesAbove(mdd.edges[e + 1].from) \cap SourceNodes # {}
               /\ NodesBelow(mdd.edges[e + 1].to) \cap SinkNodes # {}

NoEmptyDomain == \A v \in 0..(N - 1) : DomainOf(v) # <<>>

PropagationStep == history'.calls = history.calls

\* C39: propagate_constraints creates no node and no edge (number_nodes()
\* and number_edges() do not change, the inactive elements stay in the
\* arenas), and in every operation the active flag of an edge goes from true
\* to false only, never back.
C39_OnlyRemoves ==
    [][/\ Len(mdd'.edges) >= Len(mdd.edges)
       /\ Len(mdd'.nodes) >= Len(mdd.nodes)
       /\ \A e \in EdgeHandles : ~Active(e) => ~mdd'.edges[e + 1].active
       /\ PropagationStep =>
              /\ Len(mdd'.nodes) = Len(mdd.nodes)
              /\ Len(mdd'.edges) = Len(mdd.edges)
              /\ \A e \in EdgeHandles :
                     /\ mdd'.edges[e + 1].from = mdd.edges[e + 1].from
                     /\ mdd'.edges[e + 1].to = mdd.edges[e + 1].to
                     /\ mdd'.edges[e + 1].assignment = mdd.edges[e + 1].assignment]_vars

\* propagate_constraints returned after a split: it removed edges, the
\* arenas hold the nodes and edges of Mdd::new and of the split, some edges
\* are inactive and some active
C39_Witness ==
    /\ pc = "returned"
    /\ history.ops = {"split_node"}
    /\ history.at < propagates
    /\ ActiveEdges(mdd) # active_before
    /\ ActiveEdges(mdd) # {}
    /\ Len(mdd.nodes) > N + 1
    /\ \E e \in EdgeHandles : ~Active(e)

====
